---- MODULE Spec2Model ----
(***************************************************************************)
(* Change detection, classification and alert routing of the competitor    *)
(* watchdog (src/src/diff, src/src/classifier, src/src/alerting).          *)
(*                                                                         *)
(* The record store (SQLAlchemy sessions, src/src/storage) is modelled as  *)
(* a transactional store: three tables (snapshots, changes, alerts) whose  *)
(* row ids are the positions in the sequences, and an object handed from   *)
(* one unit of work to the next carries the column values of its row.      *)
(* Percentages and confidences are integers: a change percentage is in     *)
(* hundredths of a percent (5.0 is 500) and a confidence in hundredths     *)
(* (0.7 is 70).  Time is counted in days.                                  *)
(*                                                                         *)
(* The specifications share the state:                                     *)
(*   Spec          the crawl pipeline: crawl, detect, classify, and the    *)
(*                 immediate alert of what was classified urgent;          *)
(*   SpecAlerts    the alert router (classification, reclassification,     *)
(*                 the immediate path, process_pending_alerts, the daily   *)
(*                 digest and the weekly summary, days passing) on a store *)
(*                 in which detection has recorded one change per asset;   *)
(*   SpecRoute     classification under every priority_threshold an asset  *)
(*                 can be configured with;                                 *)
(*   SpecSweep     the two sweeps on changes of every age and priority;    *)
(*   SpecFunctions the functions of the diff engine, the noise filter, the *)
(*                 classifier, the priority assigner and the detector,     *)
(*                 applied to inputs of every kind;                        *)
(*   SpecCycle     detect_changes_for_all_assets on a store in which each  *)
(*                 asset was crawled twice, with detections that raise;    *)
(*   SpecLoops     the crawl loop and the alert loop of main.py as two     *)
(*                 threads, one session or sink call per step, with        *)
(*                 exceptions and the interrupt;                           *)
(*   SpecWorkers   two workers in detect_changes_for_asset.                *)
(* In SpecLoops and SpecWorkers steps of two threads interleave; in the    *)
(* others operations run one at a time.                                    *)
(***************************************************************************)
EXTENDS Integers, Sequences, FiniteSets, TLC

\* ---------------------------------------------------------------- bounds
MaxSnapshots == 3
MaxTime == 1
MaxAlerts == 2
MaxSummary == 5

\* ------------------------------------------------------------- constants
None == "None"
AssetIds == {1, 2}
SIGNIFICANCE_THRESHOLD == 500
NOISE_LOW_PCT == 200
NOISE_OTHER_PCT == 100
LINES_THRESHOLD == 10
CONFIDENT == 70
MIN_CONFIDENCE == 30
MAX_SENTENCES == 3
MIN_RATIONALE_LEN == 10
DAILY_WINDOW == 1
WEEKLY_WINDOW == 7
DEFAULT_LEVEL == 2

\* ---------------------------------------------------------------- strings
\* A string is a sequence of tokens (words, or the sentence separator
\* ". "); the empty sequence is the empty string, which Python treats like
\* None wherever the code writes "x or y" / "not x".
SEP == ". "

RECURSIVE SumLen(_)
SumLen(s) == IF s = <<>> THEN 0 ELSE Len(Head(s)) + SumLen(Tail(s))

DOT == "."

\* number of single spaces that join two neighbouring words
Gaps(s) ==
    Cardinality({i \in 1..(Len(s) - 1) : s[i] # SEP /\ s[i + 1] # SEP /\ s[i + 1] # DOT})

\* a run of blanks at either end of a string
PAD == "   "

\* s.strip()
RECURSIVE Strip(_)
Strip(s) ==
    IF s = <<>> THEN s
    ELSE IF Head(s) = PAD THEN Strip(Tail(s))
    ELSE IF s[Len(s)] = PAD THEN Strip(SubSeq(s, 1, Len(s) - 1))
    ELSE s

StrLenUntrimmed(s) == SumLen(s) + Gaps(s)

\* len(s.strip())
StrLen(s) == SumLen(Strip(s)) + Gaps(Strip(s))

\* len(s.split('. '))
SentenceCount(s) == Cardinality({i \in 1..Len(s) : s[i] = SEP}) + 1

\* str.lower() of one token
Lower(tok) ==
    CASE tok = "SOC" -> "soc"
      [] tok = "ISO" -> "iso"
      [] tok = "GDPR" -> "gdpr"
      [] tok = "HIPAA" -> "hipaa"
      [] tok = "Pricing" -> "pricing"
      [] tok = "Might" -> "might"
      [] tok = "High" -> "high"
      [] tok = "HIGH" -> "high"
      [] tok = "Medium" -> "medium"
      [] tok = "Low" -> "low"
      [] tok = "Other" -> "other"
      [] OTHER -> tok

LowerStr(s) == [i \in 1..Len(s) |-> Lower(s[i])]

\* "w in tok" for one word: equal, or a proper substring of a longer token
SubstringPairs ==
    {<<"updated", "update">>, <<"updates", "update">>, <<"features", "feature">>,
     <<"tiers", "tier">>, <<"released", "release">>, <<"explanation", "plan">>,
     <<"plans", "plan">>, <<"customers", "customer">>, <<"tweets", "tweet">>}

HasSub(tok, w) == tok = w \/ <<tok, w>> \in SubstringPairs

\* "kw in text": kw (a sequence of words) occurs in consecutive tokens
Contains(text, kw) ==
    \E i \in 1..(Len(text) - Len(kw) + 1) :
        \A j \in 1..Len(kw) : HasSub(text[i + j - 1], kw[j])

ContainsAny(text, kws) == \E kw \in kws : Contains(text, kw)

\* ------------------------------------------------------------ dictionaries
\* A JSON object / Python dict is a function on its keys; None and {} are
\* both the empty function (the code only ever tests them for truth).
NoDict == <<>>

Truthy(d) == DOMAIN d # {}

Get(d, k, default) == IF k \in DOMAIN d THEN d[k] ELSE default

\* ------------------------------------------------------------ diff engine
\* Page texts.  The line and character matching is done by the standard
\* library (difflib); its results for the three documents are tabulated:
\*   T1  a 40-line pricing page whose first line is "Plan A: $10/mo, 5 seats"
\*   T2  T1 with the first line changed to "Plan A: $15/mo, 5 seats"
\*   T3  T1 with its last 20 lines replaced by 20 new paragraphs
NoText == ""
Texts == {"T1", "T2", "T3"}

\* hashlib.sha256(text).hexdigest(): distinct texts, distinct digests
Sha256(text) == "sha256:" \o text

\* difflib.Differ().compare on the lines: counts of "+ ", "- " and "? "
DifferCounts(a, b) ==
    CASE a = b -> [added |-> 0, removed |-> 0, modified |-> 0]
      [] {a, b} = {"T1", "T2"} -> [added |-> 1, removed |-> 1, modified |-> 2]
      [] {a, b} = {"T1", "T3"} -> [added |-> 20, removed |-> 20, modified |-> 0]
      [] OTHER -> [added |-> 21, removed |-> 21, modified |-> 2]

\* round((1 - SequenceMatcher(None, a, b).ratio()) * 100, 2), in hundredths
RatioPct(a, b) ==
    CASE a = b -> 0
      [] {a, b} = {"T1", "T2"} -> 7
      [] a = "T1" /\ b = "T3" -> 5380
      [] a = "T3" /\ b = "T1" -> 5354
      [] a = "T2" /\ b = "T3" -> 8015
      [] OTHER -> 5361

_text_diff(text_before, text_after) ==
    LET c == DifferCounts(text_before, text_after)
    IN  [added_count |-> c.added,
         removed_count |-> c.removed,
         modified_count |-> c.modified]

_calculate_change_percentage(text_before, text_after) ==
    IF text_before = NoText
    THEN (IF text_after # NoText THEN 10000 ELSE 0)
    ELSE IF text_after = NoText
         THEN 10000
         ELSE RatioPct(text_before, text_after)

\* {tier.get('name', ''): tier for tier in bag.get('tiers', [])}: a later
\* tier of the same name replaces an earlier one
TierNames(tiers) == {tiers[i].name : i \in 1..Len(tiers)}

TierByName(tiers, name) ==
    tiers[CHOOSE i \in 1..Len(tiers) :
            /\ tiers[i].name = name
            /\ \A j \in (i + 1)..Len(tiers) : tiers[j].name # name]

_compare_pricing_features_only(before, after) ==
    LET tb == Get(before, "tiers", <<>>)
        ta == Get(after, "tiers", <<>>)
        new_tiers == {TierByName(ta, n) : n \in TierNames(ta) \ TierNames(tb)}
        removed_tiers == {TierByName(tb, n) : n \in TierNames(tb) \ TierNames(ta)}
        common == TierNames(tb) \cap TierNames(ta)
        price_changes ==
            {[tier |-> n,
              price_before |-> TierByName(tb, n).price,
              price_after |-> TierByName(ta, n).price] :
                n \in {m \in common : TierByName(tb, m).price # TierByName(ta, m).price}}
        feature_changes ==
            {[tier |-> n,
              features_added |-> TierByName(ta, n).features \ TierByName(tb, n).features,
              features_removed |-> TierByName(tb, n).features \ TierByName(ta, n).features] :
                n \in {m \in common : TierByName(tb, m).features # TierByName(ta, m).features}}
        tier_changes == feature_changes
        free_before == Get(before, "has_free_tier", None)
        free_after == Get(after, "has_free_tier", None)
        free_changed == free_before # free_after
        base == [tier_changes |-> tier_changes,
                 free_tier_changed |-> free_changed,
                 new_tiers |-> new_tiers,
                 removed_tiers |-> removed_tiers]
        changes == IF free_changed
                   THEN base @@ [free_tier_before |-> free_before,
                                 free_tier_after |-> free_after]
                   ELSE base
    IN  IF tier_changes # {} \/ new_tiers # {} \/ removed_tiers # {} \/ free_changed
        THEN changes
        ELSE NoDict

_compare_pricing(before, after) ==
    LET tb == Get(before, "tiers", <<>>)
        ta == Get(after, "tiers", <<>>)
        new_tiers == {TierByName(ta, n) : n \in TierNames(ta) \ TierNames(tb)}
        removed_tiers == {TierByName(tb, n) : n \in TierNames(tb) \ TierNames(ta)}
        common == TierNames(tb) \cap TierNames(ta)
        price_changes ==
            {[tier |-> n,
              price_before |-> TierByName(tb, n).price,
              price_after |-> TierByName(ta, n).price] :
                n \in {m \in common : TierByName(tb, m).price # TierByName(ta, m).price}}
        feature_changes ==
            {[tier |-> n,
              features_added |-> TierByName(ta, n).features \ TierByName(tb, n).features,
              features_removed |-> TierByName(tb, n).features \ TierByName(ta, n).features] :
                n \in {m \in common : TierByName(tb, m).features # TierByName(ta, m).features}}
        tier_changes == price_changes \cup feature_changes
        free_before == Get(before, "has_free_tier", None)
        free_after == Get(after, "has_free_tier", None)
        free_changed == free_before # free_after
        base == [tier_changes |-> tier_changes,
                 free_tier_changed |-> free_changed,
                 new_tiers |-> new_tiers,
                 removed_tiers |-> removed_tiers]
        changes == IF free_changed
                   THEN base @@ [free_tier_before |-> free_before,
                                 free_tier_after |-> free_after]
                   ELSE base
    IN  IF tier_changes # {} \/ new_tiers # {} \/ removed_tiers # {} \/ free_changed
        THEN changes
        ELSE NoDict

_compare_features(before, after) ==
    LET fb == Get(before, "features", {})
        fa == Get(after, "features", {})
    IN  IF fa \ fb = {} /\ fb \ fa = {}
        THEN NoDict
        ELSE [features_added |-> fa \ fb, features_removed |-> fb \ fa]

_compare_changelog(before, after) ==
    LET new_entries == Get(after, "entries", {}) \ Get(before, "entries", {})
    IN  IF new_entries = {} THEN NoDict ELSE [new_entries |-> new_entries]

_compare_sitemap(before, after) ==
    LET ub == Get(before, "urls", {})
        ua == Get(after, "urls", {})
    IN  IF ua \ ub = {} /\ ub \ ua = {}
        THEN NoDict
        ELSE [new_urls |-> ua \ ub, removed_urls |-> ub \ ua]

_compare_blog(before, after) ==
    LET urls_before == {p.url : p \in Get(before, "posts", {})}
        new_posts == {p \in Get(after, "posts", {}) : p.url \notin urls_before}
    IN  IF new_posts = {} THEN NoDict ELSE [new_posts |-> new_posts]

_compare_compliance_unguarded(before, after) ==
    LET new_certs == Get(after, "certifications", {}) \ Get(before, "certifications", {})
        new_standards == Get(after, "standards", {}) \ Get(before, "standards", {})
    IN  [new_certifications |-> new_certs, new_standards |-> new_standards]

_compare_compliance(before, after) ==
    LET new_certs == Get(after, "certifications", {}) \ Get(before, "certifications", {})
        new_standards == Get(after, "standards", {}) \ Get(before, "standards", {})
    IN  IF new_certs = {} /\ new_standards = {}
        THEN NoDict
        ELSE [new_certifications |-> new_certs, new_standards |-> new_standards]

_compare_twitter(before, after) ==
    LET ids_before == {t.id : t \in {u \in Get(before, "tweets", {}) : u.id # ""}}
        new_tweets == {t \in Get(after, "tweets", {}) : t.id # "" /\ t.id \notin ids_before}
    IN  IF new_tweets = {} THEN NoDict ELSE [new_tweets |-> new_tweets]

_compare_news(before, after) ==
    LET urls_before == {a.url : a \in {u \in Get(before, "articles", {}) : u.url # ""}}
        new_articles == {a \in Get(after, "articles", {}) : a.url # "" /\ a.url \notin urls_before}
    IN  IF new_articles = {} THEN NoDict ELSE [new_articles |-> new_articles]

_compare_structured_data(metadata_before, metadata_after, asset_type) ==
    CASE asset_type = "pricing" -> _compare_pricing(metadata_before, metadata_after)
      [] asset_type = "features" -> _compare_features(metadata_before, metadata_after)
      [] asset_type = "changelog" -> _compare_changelog(metadata_before, metadata_after)
      [] asset_type = "sitemap" -> _compare_sitemap(metadata_before, metadata_after)
      [] asset_type = "blog" -> _compare_blog(metadata_before, metadata_after)
      [] asset_type = "compliance" -> _compare_compliance(metadata_before, metadata_after)
      [] asset_type = "twitter" -> _compare_twitter(metadata_before, metadata_after)
      [] asset_type = "news" -> _compare_news(metadata_before, metadata_after)
      [] OTHER -> NoDict

compare_snapshots_without_fast_path(snapshot_before, snapshot_after, asset_type) ==
    IF snapshot_before.content_text = NoText \/ snapshot_after.content_text = NoText
    THEN NoDict
    ELSE [before_content |-> snapshot_before.content_text,
          after_content |-> snapshot_after.content_text,
          text_diff |-> _text_diff(snapshot_before.content_text, snapshot_after.content_text),
          structured_diff |->
              IF Truthy(snapshot_before.metadata_json) /\ Truthy(snapshot_after.metadata_json)
              THEN _compare_structured_data(snapshot_before.metadata_json,
                                            snapshot_after.metadata_json, asset_type)
              ELSE NoDict,
          content_change_percentage |->
              _calculate_change_percentage(snapshot_before.content_text,
                                           snapshot_after.content_text)]

\* compare_snapshots: NoDict stands for the None result
compare_snapshots(snapshot_before, snapshot_after, asset_type) ==
    IF snapshot_before.content_hash = snapshot_after.content_hash
    THEN NoDict
    ELSE IF snapshot_before.content_text = NoText \/ snapshot_after.content_text = NoText
    THEN NoDict
    ELSE [before_content |-> snapshot_before.content_text,
          after_content |-> snapshot_after.content_text,
          text_diff |-> _text_diff(snapshot_before.content_text, snapshot_after.content_text),
          structured_diff |->
              IF Truthy(snapshot_before.metadata_json) /\ Truthy(snapshot_after.metadata_json)
              THEN _compare_structured_data(snapshot_before.metadata_json,
                                            snapshot_after.metadata_json, asset_type)
              ELSE NoDict,
          content_change_percentage |->
              _calculate_change_percentage(snapshot_before.content_text,
                                           snapshot_after.content_text)]

is_significant_change_above(change_data, threshold) ==
    \/ Truthy(change_data.structured_diff)
    \/ change_data.content_change_percentage > threshold
    \/ change_data.text_diff.added_count + change_data.text_diff.removed_count > LINES_THRESHOLD

is_significant_change(change_data, threshold) ==
    \/ Truthy(change_data.structured_diff)
    \/ change_data.content_change_percentage >= threshold
    \/ change_data.text_diff.added_count + change_data.text_diff.removed_count > LINES_THRESHOLD

\* ---------------------------------------------------------- semantic diff
\* What analyze_change returns when the service call raises
DegradedAnalysisLow(asset_type) ==
    [summary |-> <<"change", "detected", "on", asset_type, "page">>,
     change_type |-> "unknown",
     significance |-> "low",
     error |-> "service error"]

\* analyze_change: except Exception
DegradedAnalysis(asset_type) ==
    [summary |-> <<"change", "detected", "on", asset_type, "page">>,
     change_type |-> "unknown",
     significance |-> "medium",
     error |-> "service error"]

\* _parse_response: except json.JSONDecodeError; the summary is the text of
\* the reply
UnparsableAnalysis ==
    [summary |-> <<"sorry", "i", "cannot", "compare", "these">>,
     change_type |-> "unknown",
     significance |-> "medium",
     error |-> "Failed to parse JSON response"]

filter_noise_inclusive(change_data, semantic_analysis) ==
    LET significance == Lower(Get(semantic_analysis, "significance", "medium"))
        change_percentage == change_data.content_change_percentage
        change_type == Lower(Get(semantic_analysis, "change_type", ""))
    IN  \/ significance = "low" /\ change_percentage <= NOISE_LOW_PCT
        \/ change_type = "other" /\ change_percentage <= NOISE_OTHER_PCT

filter_noise(change_data, semantic_analysis) ==
    LET significance == Lower(Get(semantic_analysis, "significance", "medium"))
        change_percentage == change_data.content_change_percentage
        change_type == Lower(Get(semantic_analysis, "change_type", ""))
    IN  \/ significance = "low" /\ change_percentage < NOISE_LOW_PCT
        \/ change_type = "other" /\ change_percentage < NOISE_OTHER_PCT

\* ------------------------------------------------------- change detector
_infer_change_type(asset_type, change_data) ==
    LET sd == change_data.structured_diff
    IN  IF Truthy(sd)
        THEN CASE "tier_changes" \in DOMAIN sd \/ "free_tier_changed" \in DOMAIN sd -> "pricing"
               [] "features_added" \in DOMAIN sd \/ "features_removed" \in DOMAIN sd -> "feature"
               [] "new_certifications" \in DOMAIN sd \/ "new_standards" \in DOMAIN sd -> "compliance"
               [] "new_entries" \in DOMAIN sd -> "changelog"
               [] "new_urls" \in DOMAIN sd -> "sitemap"
               [] "new_posts" \in DOMAIN sd -> "blog"
               [] OTHER -> asset_type
        ELSE asset_type

\* f"... ({change_pct}% change)"
PctToken(pct) == "(" \o ToString(pct \div 100) \o "." \o ToString(pct % 100) \o "%"

_generate_basic_summary(change_data, asset_type) ==
    LET added == change_data.text_diff.added_count
        removed == change_data.text_diff.removed_count
        tail == <<PctToken(change_data.content_change_percentage), "change)">>
    IN  IF added > 0 /\ removed > 0
        THEN <<"content", "updated", "on", asset_type, "page:", ToString(added), "lines",
               "added,", ToString(removed), "lines", "removed">> \o tail
        ELSE IF added > 0
        THEN <<"content", "added", "to", asset_type, "page:", ToString(added), "new",
               "lines">> \o tail
        ELSE IF removed > 0
        THEN <<"content", "removed", "from", asset_type, "page:", ToString(removed),
               "lines", "removed">> \o tail
        ELSE <<"change", "detected", "on", asset_type, "page">> \o tail

\* The row _create_change_record adds; (semantic_analysis = NoDict is "no
\* analysis")
_create_change_record(asset_id, asset_type, before_id, after_id, change_data, semantic_analysis, utcnow) ==
    [asset_id |-> asset_id,
     snapshot_before_id |-> before_id,
     snapshot_after_id |-> after_id,
     change_type |-> IF Truthy(semantic_analysis)
                     THEN Get(semantic_analysis, "change_type", "unknown")
                     ELSE _infer_change_type(asset_type, change_data),
     priority |-> None,
     summary |-> IF Truthy(semantic_analysis)
                 THEN Get(semantic_analysis, "summary", <<"change", "detected">>)
                 ELSE _generate_basic_summary(change_data, asset_type),
     why_it_matters |-> IF Truthy(semantic_analysis)
                        THEN Get(semantic_analysis, "why_it_matters", <<>>)
                        ELSE <<"change", "detected", "on", asset_type, "page">>,
     before_content |-> change_data.before_content,
     after_content |-> change_data.after_content,
     diff_metadata_json |-> IF Truthy(change_data.structured_diff)
                            THEN change_data.structured_diff
                            ELSE change_data.text_diff,
     detected_at |-> utcnow,
     alert_sent |-> FALSE,
     alert_sent_at |-> -1]

\* ------------------------------------------------------ change classifier
Priorities == {"high", "medium", "low"}

\* _parse_classification_response, after json.loads: fill in missing fields
_parse_classification_response(raw) ==
    [priority |-> Get(raw, "priority", "medium"),
     change_type |-> Get(raw, "change_type", "unknown"),
     summary |-> Get(raw, "summary", <<"unknown">>),
     why_it_matters |-> Get(raw, "why_it_matters", <<"unknown">>),
     confidence |-> Get(raw, "confidence", 50)]

\* position of the n-th sentence separator of s (0 if there is none)
RECURSIVE NthSep(_, _, _)
NthSep(s, n, from) ==
    IF from > Len(s) THEN 0
    ELSE IF s[from] = SEP
         THEN (IF n = 1 THEN from ELSE NthSep(s, n - 1, from + 1))
         ELSE NthSep(s, n, from + 1)

EndsWithDot(s) == s # <<>> /\ s[Len(s)] \in {DOT, "etc."}

TruncateSummaryBare(summary) ==
    SubSeq(summary, 1, NthSep(summary, MAX_SENTENCES, 1) - 1)

\* '. '.join(summary.split('. ')[:3]), then a '.' if it does not end in one
TruncateSummary(summary) ==
    LET cut == SubSeq(summary, 1, NthSep(summary, MAX_SENTENCES, 1) - 1)
    IN  IF EndsWithDot(cut) THEN cut ELSE cut \o <<DOT>>

ClampFromBelow(lo, hi, x) == IF x < lo THEN lo ELSE x

\* max(lo, min(hi, x))
Clamp(lo, hi, x) == IF x < lo THEN lo ELSE IF x > hi THEN hi ELSE x

_validate_classification(result) ==
    [result EXCEPT
        !.priority = IF Lower(@) \in Priorities THEN Lower(@) ELSE "medium",
        !.summary = IF SentenceCount(@) > MAX_SENTENCES THEN TruncateSummary(@) ELSE @,
        !.confidence = Clamp(0, 100, @)]

\* change_data as classify_change of the manager builds it from the row:
\* diff_metadata_json doubles as structured_diff and as text_diff
_rule_based_classification_static(structured_diff, asset_type, change_type) ==
    LET priority ==
            IF change_type = "pricing"
               \/ (Truthy(structured_diff) /\ "tier_changes" \in DOMAIN structured_diff)
            THEN "high"
            ELSE IF change_type = "compliance"
                    \/ (Truthy(structured_diff) /\ "new_certifications" \in DOMAIN structured_diff)
            THEN "high"
            ELSE IF change_type = "feature" /\ Truthy(structured_diff)
            THEN (IF Get(structured_diff, "features_added", {}) # {} THEN "high" ELSE "medium")
            ELSE IF change_type = "changelog"
            THEN "medium"
            ELSE IF change_type = "blog" \/ change_type = "content"
            THEN "low"
            ELSE "medium"
    IN  [priority |-> priority,
         change_type |-> IF change_type \in {None, ""} THEN asset_type ELSE change_type,
         summary |-> <<"change", "detected", "on", asset_type, "page", "(0.0%", "change)">>,
         why_it_matters |-> <<"monitor", asset_type, "changes", "for", "competitive",
                              "intelligence">>,
         confidence |-> 60]

\* ------------------------------------------------------ priority assigner
HIGH_PRIORITY_KEYWORDS ==
    {<<"pricing">>, <<"price">>, <<"tier">>, <<"plan">>, <<"free", "tier">>,
     <<"certification">>, <<"compliance">>, <<"SOC">>, <<"ISO">>, <<"GDPR">>, <<"HIPAA">>,
     <<"integration">>, <<"launch">>, <<"release">>, <<"feature">>}

MEDIUM_PRIORITY_KEYWORDS ==
    {<<"changelog">>, <<"update">>, <<"news">>, <<"press", "release">>,
     <<"case", "study">>, <<"customer">>, <<"logo">>, <<"twitter">>, <<"tweet">>}

LOW_PRIORITY_KEYWORDS ==
    {<<"homepage">>, <<"landing">>, <<"testimonial">>, <<"blog">>,
     <<"thought", "leadership">>, <<"industry">>}

\* "a or b" on strings
OrStr(a, b) == IF a # <<>> THEN a ELSE b

OrType(a, b) == IF a \notin {None, ""} THEN a ELSE b

_rule_based_priority_high_first(change, classification) ==
    LET change_type == Lower(OrType(classification.change_type, OrType(change.change_type, "")))
        summary == LowerStr(OrStr(classification.summary, change.summary))
        why_it_matters == LowerStr(OrStr(classification.why_it_matters, change.why_it_matters))
        combined_text == <<change_type>> \o summary \o why_it_matters
    IN  IF ContainsAny(combined_text, HIGH_PRIORITY_KEYWORDS)
        THEN "high"
        ELSE IF ContainsAny(combined_text, MEDIUM_PRIORITY_KEYWORDS)
        THEN "medium"
        ELSE IF ContainsAny(combined_text, LOW_PRIORITY_KEYWORDS)
        THEN "low"
        ELSE IF change_type \in {"pricing", "compliance"}
        THEN "high"
        ELSE IF change_type \in {"changelog", "news"}
        THEN "medium"
        ELSE "low"

_rule_based_priority(change, classification) ==
    LET change_type == Lower(OrType(classification.change_type, OrType(change.change_type, "")))
        summary == LowerStr(OrStr(classification.summary, change.summary))
        why_it_matters == LowerStr(OrStr(classification.why_it_matters, change.why_it_matters))
        combined_text == <<change_type>> \o summary \o why_it_matters
    IN  IF /\ ContainsAny(combined_text, HIGH_PRIORITY_KEYWORDS)
           /\ ~ContainsAny(combined_text, LOW_PRIORITY_KEYWORDS)
        THEN "high"
        ELSE IF ContainsAny(combined_text, MEDIUM_PRIORITY_KEYWORDS)
        THEN "medium"
        ELSE IF ContainsAny(combined_text, LOW_PRIORITY_KEYWORDS)
        THEN "low"
        ELSE IF change_type \in {"pricing", "compliance"}
        THEN "high"
        ELSE IF change_type \in {"changelog", "news"}
        THEN "medium"
        ELSE "low"

assign_priority_unconditional(change, classification) ==
    IF Lower(classification.priority) \in Priorities
    THEN Lower(classification.priority)
    ELSE _rule_based_priority(change, classification)

assign_priority(change, classification) ==
    IF classification.confidence >= CONFIDENT /\ Lower(classification.priority) \in Priorities
    THEN Lower(classification.priority)
    ELSE _rule_based_priority(change, classification)

SpeculativeWords ==
    {<<"might">>, <<"could">>, <<"possibly">>, <<"perhaps">>, <<"maybe">>, <<"potentially">>}

AllowedPhrases == {<<"could", "indicate">>, <<"might", "suggest">>}

\* validate_quality: "ok", or the reason of the rejection
validate_quality(change, classification) ==
    LET summary == OrStr(classification.summary, change.summary)
        why_it_matters == OrStr(classification.why_it_matters, change.why_it_matters)
        why_lower == LowerStr(why_it_matters)
    IN  IF summary = <<>>
        THEN "Summary is missing"
        ELSE IF SentenceCount(summary) > MAX_SENTENCES
        THEN "Summary has too many sentences"
        ELSE IF why_it_matters = <<>> \/ StrLen(why_it_matters) < MIN_RATIONALE_LEN
        THEN "Why it matters is missing or too short"
        ELSE IF ContainsAny(why_lower, SpeculativeWords) /\ ~ContainsAny(why_lower, AllowedPhrases)
        THEN "Why it matters contains speculative language"
        ELSE IF classification.confidence < MIN_CONFIDENCE
        THEN "Classification confidence too low"
        ELSE IF change.before_content = NoText \/ change.after_content = NoText
        THEN "Before/after content is missing"
        ELSE "ok"

priority_levels(p) ==
    CASE p = "high" -> 3
      [] p = "medium" -> 2
      [] p = "low" -> 1
      [] OTHER -> DEFAULT_LEVEL

should_alert_inclusive(change, classification, priority_threshold) ==
    IF validate_quality(change, classification) # "ok"
    THEN FALSE
    ELSE IF priority_threshold \notin {None, ""}
            /\ priority_levels(assign_priority(change, classification))
                 <= priority_levels(Lower(priority_threshold))
    THEN FALSE
    ELSE TRUE

\* should_alert(change, classification, priority_threshold)
should_alert(change, classification, priority_threshold) ==
    IF validate_quality(change, classification) # "ok"
    THEN FALSE
    ELSE IF priority_threshold \notin {None, ""}
            /\ priority_levels(assign_priority(change, classification))
                 < priority_levels(Lower(priority_threshold))
    THEN FALSE
    ELSE TRUE

\* ------------------------------------------------------------------ state
VARIABLES
    assets,      \* assets table: id -> [asset_type, priority_threshold, competitor]
    snapshots,   \* snapshots table (row id = position)
    changes,     \* changes table (row id = position)
    alerts,      \* alerts table (append-only)
    gate,        \* per change, what its latest classification decided
    sink,        \* what the last operation handed to the notification sink
    now,         \* datetime.utcnow(), in days
    call,        \* the function application under study: [op, args, ret]
    threads,     \* per thread of control, where it is and what it holds
    outbox       \* per change, how many messages about it the sink accepted

vars == <<assets, snapshots, changes, alerts, gate, sink, now, call, threads, outbox>>

ChangeIds == 1..Len(changes)

\* ------------------------------------------------------------ environment
\* What a crawl can store for an asset: (text, structured bag)
Tier(price) == [name |-> "Plan A", price |-> price, features |-> {"5 seats"}]

PricingBag(price) == [tiers |-> <<Tier(price)>>, has_free_tier |-> "False"]

BlogBag(urls) == [posts |-> {[url |-> u] : u \in urls}]

Pages(asset_type) ==
    IF asset_type = "pricing"
    THEN {[text |-> "T1", metadata |-> PricingBag("$10/mo")],
          [text |-> "T2", metadata |-> PricingBag("$15/mo")],
          [text |-> "T2", metadata |-> PricingBag("$10/mo")]}
    ELSE {[text |-> "T1", metadata |-> BlogBag({"/a"})],
          [text |-> "T3", metadata |-> NoDict]}

WhyOk == <<"competitor", "raised", "entry", "price">>
WhySpeculative == <<"this", "might", "hurt", "renewals">>

\* Answers of the semantic service (after _parse_response)
SemanticAnswers ==
    {[summary |-> <<"plan", "a", "price", "raised">>, change_type |-> "pricing",
      why_it_matters |-> WhyOk, significance |-> "high"],
     [summary |-> <<"footer", "reworded">>, change_type |-> "Other",
      why_it_matters |-> <<"cosmetic", "edit", "only">>, significance |-> "low"]}

\* kind "none": no service configured (has_llm false); "error": the call
\* raised and analyze_change returned its degraded result
SemanticOutcomes ==
    {[kind |-> "none", result |-> NoDict], [kind |-> "error", result |-> NoDict]}
        \cup {[kind |-> "answer", result |-> r] : r \in SemanticAnswers}

\* kind "unparsable": the reply is not JSON; "raise": the exception leaves
\* analyze_change and is caught in detect_changes_for_asset, which goes on
\* without an analysis
SemanticFailures ==
    {[kind |-> "unparsable", result |-> NoDict], [kind |-> "raise", result |-> NoDict]}

\* Answers of the classification service (the parsed JSON object)
Answer(priority, why_it_matters, confidence) ==
    [priority |-> priority, change_type |-> "pricing",
     summary |-> <<"plan", "a", "price", "raised">>,
     why_it_matters |-> why_it_matters, confidence |-> confidence]

ClassifierAnswers ==
    {Answer("High", WhyOk, 90), Answer("medium", WhyOk, 90), Answer("low", WhyOk, 90),
     Answer("medium", WhySpeculative, 90), Answer("low", WhyOk, 20)}

\* kind "error": no service configured, the call raised or the answer did
\* not parse; the rule-based classification is used
ClassifierOutcomes ==
    {[kind |-> "error", raw |-> NoDict]}
        \cup {[kind |-> "answer", raw |-> r] : r \in ClassifierAnswers}

\* The classification service up and answering, as the alert router sees it
\* when every change gets an LLM classification
AnsweredOutcomes ==
    {[kind |-> "answer", raw |-> r] :
        r \in {Answer("High", WhyOk, 90), Answer("medium", WhyOk, 90),
               Answer("low", WhyOk, 90), Answer("medium", WhySpeculative, 90)}}

\* ------------------------------------------------------------- operations
\* The tables an operation reads and writes, passed from step to step
Store == [changes |-> changes, alerts |-> alerts, gate |-> gate]

\* datetime.utcnow() when the k-th snapshot is stored: the clock only moves
\* forward, so a later insert has a later timestamp; only the order is kept
CrawlTimestamp(snaps) == Len(snaps) + 1

\* scheduler._crawl_asset, the part that stores the snapshot.  A failed
\* fetch is stored with an empty hash and no text.
NewSnapshot(snaps, asset_id, page) ==
    IF page.text = NoText
    THEN [asset_id |-> asset_id, content_hash |-> "", content_text |-> NoText,
          metadata_json |-> NoDict, crawl_timestamp |-> CrawlTimestamp(snaps)]
    ELSE [asset_id |-> asset_id, content_hash |-> Sha256(page.text),
          content_text |-> page.text, metadata_json |-> page.metadata,
          crawl_timestamp |-> CrawlTimestamp(snaps)]

FailedFetch == [text |-> NoText, metadata |-> NoDict]

OldestAndNewestSnapshots(snaps, asset_id) ==
    LET ids == {i \in 1..Len(snaps) : snaps[i].asset_id = asset_id}
        newest(S) == CHOOSE i \in S :
                        \A j \in S : snaps[j].crawl_timestamp <= snaps[i].crawl_timestamp
        oldest(S) == CHOOSE i \in S :
                        \A j \in S : snaps[i].crawl_timestamp <= snaps[j].crawl_timestamp
    IN  IF Cardinality(ids) < 2
        THEN <<>>
        ELSE <<newest(ids), oldest(ids)>>

\* query(Snapshot).filter(asset_id).order_by(crawl_timestamp.desc()).limit(2)
LastTwoSnapshots(snaps, asset_id) ==
    LET ids == {i \in 1..Len(snaps) : snaps[i].asset_id = asset_id}
        newest(S) == CHOOSE i \in S :
                        \A j \in S : snaps[j].crawl_timestamp <= snaps[i].crawl_timestamp
    IN  IF Cardinality(ids) < 2
        THEN <<>>
        ELSE <<newest(ids), newest(ids \ {newest(ids)})>>

\* analyze_change, seen from the detector
analyze_change(sem, asset_type) ==
    CASE sem.kind = "answer" -> sem.result
      [] sem.kind = "error" -> DegradedAnalysis(asset_type)
      [] sem.kind = "unparsable" -> UnparsableAnalysis
      [] OTHER -> NoDict

existing_change_unchecked(chgs, snapshot_after_id) == FALSE

\* query(Change).filter(Change.snapshot_after_id == snapshot_after.id).first()
existing_change(chgs, snapshot_after_id) ==
    \E c \in 1..Len(chgs) : chgs[c].snapshot_after_id = snapshot_after_id

\* detect_changes_for_asset: the row it creates (NoDict if it returns the
\* empty list), and whether it called the semantic service
detect_changes_for_asset(snaps, chgs, asset_id, asset_type, sem, day) ==
    LET pair == LastTwoSnapshots(snaps, asset_id)
        nothing == [row |-> NoDict, llm_called |-> FALSE]
    IN  IF pair = <<>>
        THEN nothing
        ELSE LET snapshot_after == snaps[pair[1]]
                 snapshot_before == snaps[pair[2]]
                 change_data == compare_snapshots(snapshot_before, snapshot_after, asset_type)
                 has_llm == sem.kind # "none"
                 semantic_analysis == IF has_llm THEN analyze_change(sem, asset_type) ELSE NoDict
             IN  IF existing_change(chgs, pair[1])
                 THEN nothing
                 ELSE IF ~Truthy(change_data)
                 THEN nothing
                 ELSE IF ~is_significant_change(change_data, SIGNIFICANCE_THRESHOLD)
                 THEN nothing
                 ELSE IF has_llm /\ filter_noise(change_data, semantic_analysis)
                 THEN [row |-> NoDict, llm_called |-> TRUE]
                 ELSE [row |-> _create_change_record(asset_id, asset_type, pair[2], pair[1],
                                                     change_data, semantic_analysis, day),
                       llm_called |-> has_llm]

\* session.add(change); session.commit()
AddChange(st, row) ==
    [st EXCEPT !.changes = Append(@, row),
               !.gate = Append(@, [classified |-> FALSE, valid |-> FALSE, alert |-> FALSE])]

\* AlertManager.__init__: the Slack integration was set up
has_slack == TRUE

\* What an operation of the router returns: the store afterwards, its
\* return value, the changes it handed to the sink and those the sink took
Outcome(st, ret, attempted, accepted) ==
    [st |-> st, ret |-> ret, attempted |-> attempted, accepted |-> accepted]

\* Alert(change_id, priority, sent_at, delivery_type)
Alert(st, c, delivery_type, day) ==
    [change_id |-> c, priority |-> st.changes[c].priority, sent_at |-> day,
     delivery_type |-> delivery_type]

send_immediate_alert_unconditional(st, c, sink_ok, day) ==
    IF ~has_slack
    THEN Outcome(st, FALSE, {}, {})
    ELSE IF st.changes[c].priority # "high"
    THEN Outcome(st, FALSE, {}, {})
    ELSE Outcome([st EXCEPT !.alerts = Append(@, Alert(st, c, "immediate", day)),
                            !.changes[c].alert_sent = TRUE,
                            !.changes[c].alert_sent_at = day],
                 sink_ok, {c}, IF sink_ok THEN {c} ELSE {})

\* send_immediate_alert(change)
send_immediate_alert(st, c, sink_ok, day) ==
    IF ~has_slack
    THEN Outcome(st, FALSE, {}, {})
    ELSE IF st.changes[c].priority # "high"
    THEN Outcome(st, FALSE, {}, {})
    ELSE IF ~sink_ok
    THEN Outcome(st, FALSE, {c}, {})
    ELSE Outcome([st EXCEPT !.alerts = Append(@, Alert(st, c, "immediate", day)),
                            !.changes[c].alert_sent = TRUE,
                            !.changes[c].alert_sent_at = day],
                 TRUE, {c}, {c})

\* ChangeClassifier.classify_change / the manager's rule-based branch
Classification(change, asset_type, llm) ==
    IF llm.kind = "answer"
    THEN _validate_classification(_parse_classification_response(llm.raw))
    ELSE _rule_based_classification_static(change.diff_metadata_json, asset_type,
                                           change.change_type)

\* ClassifierManager.classify_change
classify_change(st, c, asset, llm, sink_ok, day) ==
    LET change == st.changes[c]
        classification == Classification(change, asset.asset_type, llm)
        priority == assign_priority(change, classification)
        alert == should_alert(change, classification, asset.priority_threshold)
        updated == [st EXCEPT
                      !.changes[c].priority = priority,
                      !.changes[c].change_type = classification.change_type,
                      !.changes[c].summary = classification.summary,
                      !.changes[c].why_it_matters = classification.why_it_matters,
                      !.gate[c] = [classified |-> TRUE,
                                   valid |-> validate_quality(change, classification) = "ok",
                                   alert |-> alert]]
    IN  IF alert /\ priority = "high"
        THEN [send_immediate_alert(updated, c, sink_ok, day) EXCEPT !.ret = alert]
        ELSE Outcome(updated, alert, {}, {})

get_pending_alerts_sent_too(chgs, priority, use_since, since) ==
    {c \in 1..Len(chgs) :
        /\ chgs[c].priority # None
        /\ priority # None => chgs[c].priority = priority
        /\ use_since => chgs[c].detected_at >= since}

\* get_pending_alerts(priority, since); priority None and use_since FALSE
\* are the omitted arguments
get_pending_alerts(chgs, priority, use_since, since) ==
    {c \in 1..Len(chgs) :
        /\ chgs[c].alert_sent = FALSE
        /\ chgs[c].priority # None
        /\ priority # None => chgs[c].priority = priority
        /\ use_since => chgs[c].detected_at >= since}

MarkOneFlagOnly(st, c, delivery_type, day) ==
    [st EXCEPT !.changes[c].alert_sent = TRUE,
               !.changes[c].alert_sent_at = day]

\* one pass of the loop in the "if success:" block of a sweep
MarkOne(st, c, delivery_type, day) ==
    [st EXCEPT !.changes[c].alert_sent = TRUE,
               !.changes[c].alert_sent_at = day,
               !.alerts = Append(@, Alert(st, c, delivery_type, day))]

MarkSentFirstOnly(st, ids, delivery_type, day) ==
    IF ids = {}
    THEN st
    ELSE MarkOne(st, CHOOSE x \in ids : \A y \in ids : x <= y, delivery_type, day)

\* the "if success:" block of a sweep: every change of the payload, in the
\* order the query returned them
RECURSIVE MarkSent(_, _, _, _)
MarkSent(st, ids, delivery_type, day) ==
    IF ids = {}
    THEN st
    ELSE LET c == CHOOSE x \in ids : \A y \in ids : x <= y
         IN  MarkSent(MarkOne(st, c, delivery_type, day), ids \ {c}, delivery_type, day)

SweepAnyAge(st, priority, window, delivery_type, sink_ok, day) ==
    LET pending == get_pending_alerts(st.changes, priority, FALSE, 0)
    IN  IF ~has_slack \/ pending = {}
        THEN Outcome(st, FALSE, {}, {})
        ELSE IF sink_ok
        THEN Outcome(MarkSent(st, pending, delivery_type, day), TRUE, pending, pending)
        ELSE Outcome(st, FALSE, pending, {})

\* send_daily_digest / send_weekly_summary
Sweep(st, priority, window, delivery_type, sink_ok, day) ==
    LET pending == get_pending_alerts(st.changes, priority, TRUE, day - window)
    IN  IF ~has_slack \/ pending = {}
        THEN Outcome(st, FALSE, {}, {})
        ELSE IF sink_ok
        THEN Outcome(MarkSent(st, pending, delivery_type, day), TRUE, pending, pending)
        ELSE Outcome(st, FALSE, pending, {})

send_daily_digest_of_low(st, sink_ok, day) ==
    Sweep(st, "low", DAILY_WINDOW, "daily_digest", sink_ok, day)

send_daily_digest(st, sink_ok, day) ==
    Sweep(st, "medium", DAILY_WINDOW, "daily_digest", sink_ok, day)

send_weekly_summary(st, sink_ok, day) ==
    Sweep(st, "low", WEEKLY_WINDOW, "weekly_summary", sink_ok, day)

\* process_pending_alerts: the changes in ok_set are those the sink accepts
RECURSIVE SendEach(_, _, _, _)
SendEach(st, ids, ok_set, day) ==
    IF ids = {}
    THEN st
    ELSE LET c == CHOOSE x \in ids : \A y \in ids : x <= y
         IN  SendEach(send_immediate_alert(st, c, c \in ok_set, day).st,
                      ids \ {c}, ok_set, day)

process_pending_alerts(st, ok_set, day) ==
    LET high_priority == get_pending_alerts(st.changes, "high", FALSE, 0)
    IN  Outcome(SendEach(st, high_priority, ok_set, day), TRUE,
                IF has_slack THEN high_priority ELSE {},
                IF has_slack THEN high_priority \cap ok_set ELSE {})

\* ---------------------------------------------------------------- actions
\* competitors.yaml: a pricing page with priority_threshold high and a blog
\* without a priority_threshold
AssetType(a) == IF a = 1 THEN "pricing" ELSE "blog"

ConfiguredThreshold(a) == IF a = 1 THEN "high" ELSE None

AssetRow(a, priority_threshold) ==
    [asset_type |-> AssetType(a), priority_threshold |-> priority_threshold,
     competitor |-> "Acme"]

Quiet == [channel |-> "none", attempted |-> {}, accepted |-> {}]

\* no function is being applied
NoCall == [op |-> "none"]

\* one thread of control, nothing in flight
NoThreads == <<>>

\* The state after init_database and _sync_assets_from_config: the configured
\* assets, and empty snapshots, changes and alerts tables
Init ==
    /\ assets = [a \in AssetIds |-> AssetRow(a, ConfiguredThreshold(a))]
    /\ snapshots = <<>>
    /\ changes = <<>>
    /\ alerts = <<>>
    /\ gate = <<>>
    /\ sink = Quiet
    /\ now = 0
    /\ call = NoCall
    /\ threads = NoThreads
    /\ outbox = <<>>

\* session.commit() of what the operation wrote, and the sink's view of it
Commit(res, channel) ==
    /\ changes' = res.st.changes
    /\ alerts' = res.st.alerts
    /\ gate' = res.st.gate
    /\ sink' = IF res.attempted = {}
               THEN Quiet
               ELSE [channel |-> channel, attempted |-> res.attempted,
                     accepted |-> res.accepted]
    /\ Len(res.st.alerts) <= MaxAlerts

\* Time passes: a day
Tick ==
    /\ now + 1 <= MaxTime
    /\ now' = now + 1
    /\ sink' = Quiet
    /\ UNCHANGED <<threads, outbox, call, assets, snapshots, changes, alerts, gate>>

\* The answers are drawn when the service is called: the semantic service by
\* a detection that got as far as a significant diff, the classification
\* service by classify_change, the sink by a transmission.
NoSemantic == [kind |-> "none", result |-> NoDict]

\* has detection reached the semantic service call?
ReachesSemantic(snaps, a) ==
    LET pair == LastTwoSnapshots(snaps, a)
        change_data == compare_snapshots(snaps[pair[2]], snaps[pair[1]], assets[a].asset_type)
    IN  /\ pair # <<>>
        /\ ~existing_change(changes, pair[1])
        /\ Truthy(change_data)
        /\ is_significant_change(change_data, SIGNIFICANCE_THRESHOLD)

SemanticDraw(snaps, a) ==
    IF ReachesSemantic(snaps, a) THEN SemanticOutcomes ELSE {NoSemantic}

\* does classify_change of c, given the answer, go on to transmit?
Transmits(st, c, llm) ==
    LET change == st.changes[c]
        asset == assets[change.asset_id]
        classification == Classification(change, asset.asset_type, llm)
    IN  /\ should_alert(change, classification, asset.priority_threshold)
        /\ assign_priority(change, classification) = "high"

SinkDraw(transmits) == IF transmits THEN BOOLEAN ELSE {FALSE}

\* detect_changes_for_asset followed by the classification of what it
\* returned (scheduler._crawl_asset and crawl_due_assets)
DetectThenClassify(snaps, a) ==
    \E sem \in SemanticDraw(snaps, a) :
      LET det == detect_changes_for_asset(snaps, changes, a, assets[a].asset_type, sem, now)
          st1 == AddChange(Store, det.row)
          c == Len(st1.changes)
      IN  IF ~Truthy(det.row)
          THEN Commit(Outcome(Store, FALSE, {}, {}), "none")
          ELSE \E llm \in ClassifierOutcomes :
                 \E sink_ok \in SinkDraw(Transmits(st1, c, llm)) :
                   Commit(classify_change(st1, c, assets[a], llm, sink_ok, now), "immediate")

\* CrawlScheduler._crawl_asset for a web asset: store the snapshot, then (on
\* a successful fetch) detect changes and classify them
CrawlAsset(a, page) ==
    /\ Len(snapshots) < MaxSnapshots
    /\ LET snaps == Append(snapshots, NewSnapshot(snapshots, a, page))
       IN  /\ snapshots' = snaps
           /\ IF page = FailedFetch
              THEN Commit(Outcome(Store, FALSE, {}, {}), "none")
              ELSE DetectThenClassify(snaps, a)
    /\ UNCHANGED <<threads, outbox, call, assets, now>>

\* ChangeDetector.detect_changes_for_asset called on its own
DetectChanges(a) ==
    /\ \E sem \in SemanticDraw(snapshots, a) :
         LET det == detect_changes_for_asset(snapshots, changes, a, assets[a].asset_type,
                                             sem, now)
         IN  Commit(Outcome(IF Truthy(det.row) THEN AddChange(Store, det.row) ELSE Store,
                            Truthy(det.row), {}, {}), "none")
    /\ UNCHANGED <<threads, outbox, call, assets, snapshots, now>>

\* crawl_due_assets after the crawl loop: detect_changes_for_all_assets and
\* the classification of its result, one asset of the loop at a time
PostCrawlDetection(a) ==
    /\ DetectThenClassify(snapshots, a)
    /\ UNCHANGED <<threads, outbox, call, assets, snapshots, now>>

\* classify_pending_changes, one change of its loop at a time
ClassifyPending(c, llm) ==
    /\ c \in ChangeIds
    /\ changes[c].priority = None
    /\ changes[c].alert_sent = FALSE
    /\ \E sink_ok \in SinkDraw(Transmits(Store, c, llm)) :
         Commit(classify_change(Store, c, assets[changes[c].asset_id], llm, sink_ok, now),
                "immediate")
    /\ UNCHANGED <<threads, outbox, call, assets, snapshots, now>>

\* reclassify_change(change_id)
ReclassifyChange(c, llm) ==
    /\ c \in ChangeIds
    /\ \E sink_ok \in SinkDraw(Transmits(Store, c, llm)) :
         Commit(classify_change(Store, c, assets[changes[c].asset_id], llm, sink_ok, now),
                "immediate")
    /\ UNCHANGED <<threads, outbox, call, assets, snapshots, now>>

\* AlertManager.send_immediate_alert(change) called on its own
SendImmediateAlert(c) ==
    /\ c \in ChangeIds
    /\ \E sink_ok \in SinkDraw(changes[c].priority = "high") :
         Commit(send_immediate_alert(Store, c, sink_ok, now), "immediate")
    /\ UNCHANGED <<threads, outbox, call, assets, snapshots, now>>

\* process_pending_alerts: the sink accepts the messages of ok_set
ProcessPendingAlerts ==
    /\ \E ok_set \in SUBSET get_pending_alerts(changes, "high", FALSE, 0) :
         Commit(process_pending_alerts(Store, ok_set, now), "immediate")
    /\ UNCHANGED <<threads, outbox, call, assets, snapshots, now>>

\* the scheduled job of 09:00
SendDailyDigest ==
    /\ \E sink_ok \in BOOLEAN :
         Commit(send_daily_digest(Store, sink_ok, now), "daily_digest")
    /\ UNCHANGED <<threads, outbox, call, assets, snapshots, now>>

\* the scheduled job of Monday 09:00
SendWeeklySummary ==
    /\ \E sink_ok \in BOOLEAN :
         Commit(send_weekly_summary(Store, sink_ok, now), "weekly_summary")
    /\ UNCHANGED <<threads, outbox, call, assets, snapshots, now>>

\* The crawl pipeline: crawl, detect, classify, alert what is urgent
Next ==
    \/ \E a \in AssetIds : \E page \in Pages(AssetType(a)) \cup {FailedFetch} :
         CrawlAsset(a, page)
    \/ \E a \in AssetIds : DetectChanges(a)
    \/ \E a \in AssetIds : PostCrawlDetection(a)
    \/ \E c \in ChangeIds, llm \in ClassifierOutcomes : ClassifyPending(c, llm)

Spec == Init /\ [][Next]_vars

\* The alert router at work on a store the crawl pipeline has filled: the
\* pricing page went from T1 at $10/mo to T2 at $15/mo and the blog from T1 to
\* T3, and detect_changes_for_asset has recorded one change for each.
History ==
    LET s1 == <<NewSnapshot(<<>>, 1, [text |-> "T1", metadata |-> PricingBag("$10/mo")])>>
        s2 == Append(s1, NewSnapshot(s1, 2, [text |-> "T1", metadata |-> BlogBag({"/a"})]))
        s3 == Append(s2, NewSnapshot(s2, 1, [text |-> "T2", metadata |-> PricingBag("$15/mo")]))
    IN  Append(s3, NewSnapshot(s3, 2, [text |-> "T3", metadata |-> NoDict]))

\* the store after detect_changes_for_asset ran for the pricing page on day d1
\* and for the blog on day d2
DetectedOn(d1, d2) ==
    LET none == [changes |-> <<>>, alerts |-> <<>>, gate |-> <<>>]
        st1 == AddChange(none, detect_changes_for_asset(History, none.changes, 1,
                                                        AssetType(1), NoSemantic, d1).row)
    IN  AddChange(st1, detect_changes_for_asset(History, st1.changes, 2, AssetType(2),
                                                [kind |-> "error", result |-> NoDict],
                                                d2).row)

Detected == DetectedOn(0, 0)

InitAlerts ==
    /\ assets = [a \in AssetIds |-> AssetRow(a, ConfiguredThreshold(a))]
    /\ snapshots = History
    /\ changes = Detected.changes
    /\ alerts = Detected.alerts
    /\ gate = Detected.gate
    /\ sink = Quiet
    /\ now = 0
    /\ call = NoCall
    /\ threads = NoThreads
    /\ outbox = <<>>

NextAlerts ==
    \/ Tick
    \/ \E c \in ChangeIds, llm \in AnsweredOutcomes : ClassifyPending(c, llm)
    \/ \E c \in ChangeIds, llm \in AnsweredOutcomes : ReclassifyChange(c, llm)
    \/ \E c \in ChangeIds : SendImmediateAlert(c)
    \/ ProcessPendingAlerts
    \/ SendDailyDigest
    \/ SendWeeklySummary

SpecAlerts == InitAlerts /\ [][NextAlerts]_vars

\* The router's decision for every threshold an asset can be given:
\* competitors.yaml may set priority_threshold to high, medium or low, or
\* leave it out
Thresholds == {None, "high", "medium", "low"}

InitRoute ==
    /\ assets \in [AssetIds -> {AssetRow(a, t) : a \in AssetIds, t \in Thresholds}]
    /\ \A a \in AssetIds : assets[a].asset_type = AssetType(a)
    /\ snapshots = History
    /\ changes = Detected.changes
    /\ alerts = Detected.alerts
    /\ gate = Detected.gate
    /\ sink = Quiet
    /\ now = 0
    /\ call = NoCall
    /\ threads = NoThreads
    /\ outbox = <<>>

NextRoute ==
    \/ \E c \in ChangeIds, llm \in ClassifierOutcomes : ClassifyPending(c, llm)
    \/ \E c \in ChangeIds, llm \in ClassifierOutcomes : ReclassifyChange(c, llm)

SpecRoute == InitRoute /\ [][NextRoute]_vars

\* The sweeps at work on changes of every age: the day is SweepDay, each
\* change was detected today, a day ago, two days ago, a week ago or eight
\* days ago, and was classified on the day it was detected (or not at all)
\* while the sink was refusing.
Ages == {0, DAILY_WINDOW, DAILY_WINDOW + 1, WEEKLY_WINDOW, WEEKLY_WINDOW + 1}

SweepDay == WEEKLY_WINDOW + 1

Unclassified == [kind |-> "unclassified", raw |-> NoDict]

ClassifiedOn(st, c, llm, day) ==
    IF llm = Unclassified
    THEN st
    ELSE LET a == st.changes[c].asset_id
         IN  classify_change(st, c, AssetRow(a, ConfiguredThreshold(a)), llm, FALSE, day).st

InitSweep ==
    /\ assets = [a \in AssetIds |-> AssetRow(a, ConfiguredThreshold(a))]
    /\ snapshots = History
    /\ \E age1 \in Ages, age2 \in Ages :
       \E llm1 \in AnsweredOutcomes \cup {Unclassified} :
       \E llm2 \in AnsweredOutcomes \cup {Unclassified} :
         LET st0 == DetectedOn(SweepDay - age1, SweepDay - age2)
             st1 == ClassifiedOn(st0, 1, llm1, SweepDay - age1)
             st2 == ClassifiedOn(st1, 2, llm2, SweepDay - age2)
         IN  /\ changes = st2.changes
             /\ alerts = st2.alerts
             /\ gate = st2.gate
    /\ sink = Quiet
    /\ now = SweepDay
    /\ call = NoCall
    /\ threads = NoThreads
    /\ outbox = <<>>

NextSweep ==
    \/ SendDailyDigest
    \/ SendWeeklySummary

SpecSweep == InitSweep /\ [][NextSweep]_vars

\* The functions of the pipeline applied to inputs of every kind: Init
\* draws the call, the step applies the function and records what it returns.
Pending(op, args) == [op |-> op, args |-> args, done |-> FALSE, ret |-> None]

Applied(op) == call.op = op /\ call.done

Apply(op, ret) ==
    /\ call.op = op
    /\ ~call.done
    /\ call' = [call EXCEPT !.done = TRUE, !.ret = ret]
    /\ UNCHANGED <<assets, snapshots, changes, alerts, gate, sink, now, threads, outbox>>

\* the last two snapshots of an asset, as two crawls leave them
TwoSnapshots(a) ==
    {<<NewSnapshot(<<>>, a, p1), NewSnapshot(<<NewSnapshot(<<>>, a, p1)>>, a, p2)>> :
        p1 \in Pages(AssetType(a)) \cup {FailedFetch},
        p2 \in Pages(AssetType(a)) \cup {FailedFetch}}

DetectCalls ==
    {Pending("rerun", [asset_id |-> a, snaps |-> snaps, sem1 |-> sem1, sem2 |-> sem2]) :
        a \in AssetIds, snaps \in UNION {TwoSnapshots(b) : b \in AssetIds},
        sem1 \in SemanticOutcomes, sem2 \in SemanticOutcomes}

ApplyRerun ==
    LET a == call.args.asset_id
        first == detect_changes_for_asset(call.args.snaps, <<>>, a, AssetType(a),
                                          call.args.sem1, now)
        chgs == IF Truthy(first.row) THEN <<first.row>> ELSE <<>>
        second == detect_changes_for_asset(call.args.snaps, chgs, a, AssetType(a),
                                           call.args.sem2, now)
    IN  Apply("rerun", [first |-> first, second |-> second])

\* detect_changes_for_asset run twice on the same last two snapshots, the
\* semantic service answering sem1 in the first run and sem2 in the second
RerunCalls ==
    {Pending("detect_changes_for_asset", [asset_id |-> a, snaps |-> snaps, sem |-> sem]) :
        a \in AssetIds, snaps \in UNION {TwoSnapshots(b) : b \in AssetIds},
        sem \in SemanticOutcomes \cup SemanticFailures}

ApplyDetect ==
    Apply("detect_changes_for_asset",
          detect_changes_for_asset(call.args.snaps, <<>>, call.args.asset_id,
                                   AssetType(call.args.asset_id), call.args.sem, now))

\* evidence of every shape: with and without a structured diff, change
\* percentages around the threshold, line counts around ten
LineCounts == {0, LINES_THRESHOLD \div 2, LINES_THRESHOLD \div 2 + 1, LINES_THRESHOLD + 1}

Evidence(threshold) ==
    {[before_content |-> "T1", after_content |-> "T2",
      text_diff |-> [added_count |-> added, removed_count |-> removed, modified_count |-> 0],
      structured_diff |-> structured_diff,
      content_change_percentage |-> pct] :
        added \in LineCounts, removed \in LineCounts,
        structured_diff \in {NoDict, _compare_pricing(PricingBag("$10/mo"), PricingBag("$15/mo"))},
        pct \in {0, threshold - 1, threshold, threshold + 1}}

SignificanceCalls ==
    {Pending("is_significant_change", [change_data |-> change_data, threshold |-> threshold]) :
        change_data \in Evidence(SIGNIFICANCE_THRESHOLD), threshold \in {SIGNIFICANCE_THRESHOLD}}
      \cup
    {Pending("is_significant_change", [change_data |-> change_data, threshold |-> threshold]) :
        change_data \in Evidence(NOISE_LOW_PCT), threshold \in {NOISE_LOW_PCT}}

ApplySignificance ==
    Apply("is_significant_change",
          is_significant_change(call.args.change_data, call.args.threshold))

\* analyses of every significance and category, some fields left out, and
\* change percentages around one and two percent
Analyses ==
    {[f \in fields |-> IF f = "significance" THEN significance ELSE change_type] :
        fields \in SUBSET {"significance", "change_type"},
        significance \in {"low", "Low", "medium", "high"},
        change_type \in {"other", "Other", "pricing", "unknown"}}

NoiseCalls ==
    {Pending("filter_noise",
             [change_data |-> [content_change_percentage |-> pct],
              semantic_analysis |-> semantic_analysis]) :
        pct \in {0, NOISE_OTHER_PCT - 1, NOISE_OTHER_PCT, NOISE_LOW_PCT - 1, NOISE_LOW_PCT},
        semantic_analysis \in Analyses}

ApplyNoise ==
    Apply("filter_noise", filter_noise(call.args.change_data, call.args.semantic_analysis))

\* answers of the classification service whose summary has one to
\* MaxSummary sentences, with and without the final period, the third
\* sentence ending in a word or in "etc."
Sentence(i, abbreviated) ==
    IF abbreviated /\ i = MAX_SENTENCES THEN <<"s" \o ToString(i), "etc.">>
    ELSE <<"s" \o ToString(i)>>

RECURSIVE Summary(_, _, _)
Summary(k, abbreviated, final) ==
    IF k = 1
    THEN Sentence(1, abbreviated)
    ELSE Summary(k - 1, abbreviated, <<>>) \o <<SEP>> \o Sentence(k, abbreviated) \o final

ValidateCalls ==
    {Pending("_validate_classification",
             [result |-> [Answer(priority, WhyOk, confidence)
                            EXCEPT !.summary = Summary(k, abbreviated, final)]]) :
        priority \in {"High", "medium", "urgent"}, confidence \in {0 - 10, 90, 150},
        k \in 1..MaxSummary, abbreviated \in BOOLEAN, final \in {<<>>, <<DOT>>}}

ApplyValidate ==
    Apply("_validate_classification", _validate_classification(call.args.result))

\* pricing bags as PricingExtractor.extract builds them: one or two tiers,
\* each with a name, a price and a feature list, and the free-tier flag; a
\* page whose cards carry the same heading gives two tiers of one name
TierCards ==
    {[name |-> name, price |-> price, features |-> features] :
        name \in {"Plan A", "Plan B"}, price \in {"$10/mo", "$15/mo"},
        features \in {{"5 seats"}, {"5 seats", "SSO"}}}

PricingBags ==
    {[tiers |-> tiers, has_free_tier |-> "False"] :
        tiers \in {<<t>> : t \in TierCards} \cup {<<t, u>> : t \in TierCards, u \in TierCards}}

\* the pricing page crawled twice: first T1, then T2
CompareCalls ==
    {Pending("compare_snapshots",
             [snapshot_before |-> NewSnapshot(<<>>, 1, [text |-> "T1", metadata |-> before]),
              snapshot_after |-> NewSnapshot(<<>>, 1, [text |-> "T2", metadata |-> after])]) :
        before \in PricingBags, after \in PricingBags}

ApplyCompare ==
    LET change_data == compare_snapshots(call.args.snapshot_before, call.args.snapshot_after,
                                         AssetType(1))
    IN  Apply("compare_snapshots",
              [change_data |-> change_data,
               significant |-> is_significant_change(change_data, SIGNIFICANCE_THRESHOLD)])

\* ClassifierManager.classify_change up to assign_priority: the replies of
\* the classification service, parsed, and the failure of the call
AssignSummaries ==
    {<<"plan", "a", "price", "raised">>,
     <<"new", "blog", "post", "on", "plan", "limits">>,
     <<"customer", "logo", "added", "to", "homepage">>,
     <<"homepage", "hero", "reworded">>,
     <<"footer", "reworded">>,
     <<"now", "SOC", "2", "audited">>}

RawClassifications ==
    {[priority |-> p, change_type |-> t, summary |-> s, why_it_matters |-> w,
      confidence |-> c] :
        p \in {"high", "low", "High", "urgent"},
        t \in {"pricing", "changelog", "other"},
        s \in AssignSummaries,
        w \in {<<>>, <<"cosmetic", "edit", "only">>},
        c \in {-10, CONFIDENT - 1, CONFIDENT, 130}}

AssignChanges ==
    {[change_type |-> t, summary |-> <<"change", "detected">>, why_it_matters |-> w,
      diff_metadata_json |-> _text_diff("T1", "T3")] :
        t \in {"unknown", "pricing"}, w \in {<<>>, <<"industry", "report">>}}

AssignCalls ==
    {Pending("assign_priority", [change |-> c, llm |-> llm]) :
        c \in AssignChanges,
        llm \in {[kind |-> "answer", raw |-> r] : r \in RawClassifications}
                 \cup {[kind |-> "error", raw |-> NoDict]}}

ApplyAssign ==
    LET classification == Classification(call.args.change, "blog", call.args.llm)
    IN  Apply("assign_priority",
              [classification |-> classification,
               priority |-> assign_priority(call.args.change, classification)])

\* Change rows on which the classification service fails: the category as
\* the semantic analysis (or _infer_change_type) left it, and the stored
\* difference, structured or not
ClassifyDiffs ==
    {[asset_type |-> "blog", diff |-> _text_diff("T1", "T3")],
     [asset_type |-> "pricing",
      diff |-> _compare_pricing(PricingBag("$10/mo"), PricingBag("$15/mo"))],
     [asset_type |-> "compliance",
      diff |-> _compare_compliance([certifications |-> {}], [certifications |-> {"SOC 2"}])],
     [asset_type |-> "features",
      diff |-> _compare_features([features |-> {"api"}], [features |-> {"api", "sso"}])],
     [asset_type |-> "features",
      diff |-> _compare_features([features |-> {"api", "sso"}], [features |-> {"api"}])],
     [asset_type |-> "changelog",
      diff |-> _compare_changelog([entries |-> {}], [entries |-> {"v2.1"}])]}

ClassifyCalls ==
    {Pending("classify_change",
             [asset_type |-> d.asset_type, change_type |-> t, diff_metadata_json |-> d.diff]) :
        t \in {"pricing", "compliance", "feature", "changelog", "blog", "content",
               "other", "unknown"},
        d \in ClassifyDiffs}

ApplyClassify ==
    Apply("classify_change",
          Classification(call.args, call.args.asset_type, [kind |-> "error", raw |-> NoDict]))

\* validate_quality on classifications as the manager hands them over and
\* on Change rows with and without summary, rationale and page texts
QualityRationales ==
    {<<>>, WhyOk, WhySpeculative, <<"too", "short">>, <<"quite", "fine">>,
     <<PAD, "ok", PAD>>,
     <<"this", "could", "indicate", "churn">>,
     <<"this", "could", "indicate", "churn", "and", "perhaps", "more">>}

QualityCalls ==
    {Pending("validate_quality",
             [change |-> [summary |-> cs, why_it_matters |-> cw,
                          before_content |-> b, after_content |-> a],
              classification |-> [summary |-> s, why_it_matters |-> w, confidence |-> c]]) :
        cs \in {<<>>, <<"footer", "reworded">>, Summary(MAX_SENTENCES + 1, FALSE, <<>>)},
        cw \in {<<>>, WhyOk},
        b \in {NoText, "T1"}, a \in {NoText, "T2"},
        s \in {<<>>, <<"plan", "a", "price", "raised">>},
        w \in QualityRationales,
        c \in {MIN_CONFIDENCE - 1, MIN_CONFIDENCE}}

ApplyQuality ==
    Apply("validate_quality", validate_quality(call.args.change, call.args.classification))

\* attribute bags of every asset category, as the extractors leave them
StructuredBags(asset_type) ==
    CASE asset_type = "pricing" ->
           {[tiers |-> t, has_free_tier |-> f] :
               t \in {<<>>, <<Tier("$10/mo")>>, <<Tier("$15/mo")>>,
                      <<[name |-> "Plan A", price |-> "$10/mo", features |-> {"5 seats", "SSO"}]>>,
                      <<Tier("$10/mo"),
                        [name |-> "Plan B", price |-> "$40/mo", features |-> {"SSO"}]>>},
               f \in {"False", "True"}}
      [] asset_type = "features" -> {[features |-> x] : x \in SUBSET {"api", "sso"}}
      [] asset_type = "changelog" -> {[entries |-> x] : x \in SUBSET {"v2.0", "v2.1"}}
      [] asset_type = "sitemap" -> {[urls |-> x] : x \in SUBSET {"/a", "/b"}}
      [] asset_type = "blog" -> {BlogBag(x) : x \in SUBSET {"/a", "/b"}}
      [] asset_type = "compliance" ->
           {[certifications |-> x, standards |-> y] :
               x \in SUBSET {"SOC 2"}, y \in SUBSET {"ISO 27001"}}
      [] asset_type = "twitter" -> {[tweets |-> {[id |-> i] : i \in x}] : x \in SUBSET {"", "t1"}}
      [] asset_type = "news" -> {[articles |-> {[url |-> u] : u \in x}] : x \in SUBSET {"", "/n1"}}
      [] OTHER -> {[title |-> "page"]}

AssetCategories ==
    {"pricing", "features", "changelog", "sitemap", "blog", "compliance", "twitter", "news",
     "homepage"}

StructuredCalls ==
    {Pending("_compare_structured_data",
             [asset_type |-> t, metadata_before |-> pair[1], metadata_after |-> pair[2]]) :
        t \in AssetCategories,
        pair \in UNION {StructuredBags(u) \X StructuredBags(u) : u \in AssetCategories}}

ApplyStructured ==
    Apply("_compare_structured_data",
          _compare_structured_data(call.args.metadata_before, call.args.metadata_after,
                                   call.args.asset_type))

Calls ==
    DetectCalls \cup SignificanceCalls \cup NoiseCalls \cup ValidateCalls \cup CompareCalls
        \cup RerunCalls \cup AssignCalls \cup ClassifyCalls
        \cup QualityCalls \cup StructuredCalls

InitFunctions ==
    /\ assets = [a \in AssetIds |-> AssetRow(a, ConfiguredThreshold(a))]
    /\ snapshots = <<>>
    /\ changes = <<>>
    /\ alerts = <<>>
    /\ gate = <<>>
    /\ sink = Quiet
    /\ now = 0
    /\ call \in Calls
    /\ threads = NoThreads
    /\ outbox = <<>>

NextFunctions ==
    \/ ApplyDetect
    \/ ApplySignificance
    \/ ApplyNoise
    \/ ApplyValidate
    \/ ApplyCompare
    \/ ApplyRerun
    \/ ApplyAssign
    \/ ApplyClassify
    \/ ApplyQuality
    \/ ApplyStructured

SpecFunctions == InitFunctions /\ [][NextFunctions]_vars

\* The two loops of main.py side by side: the crawl loop in the main thread
\* and the alert loop in a daemon thread, each advancing one database
\* session or one sink call at a time.  The crawl thread is in a cycle whose
\* post-crawl detection returned the two changes and is about to classify
\* them; the alert thread is about to run process_pending_alerts and then
\* its sweeps.
\*   classify      ClassifierManager.classify_change is next for the least
\*                 change of batch
\*   transmit      send_immediate_alert is about to call the sink for c
\*   record        the sink accepted c; the Alert row and alert_sent are
\*                 not yet committed
\*   idle/loop     between two scheduled jobs
\*   sweep_transmit, sweep_record   the same two points of a sweep over batch
\*   terminated    an exception left the loop
\*   stopped       the process was interrupted
Frame(pc, c, batch, kind) == [pc |-> pc, c |-> c, batch |-> batch, kind |-> kind]

Least(S) == CHOOSE x \in S : \A y \in S : x <= y

\* what a thread does after the change in hand: the next change of its
\* list, or back to its loop
Resume(t, batch) ==
    IF t = "crawl"
    THEN (IF batch = {} THEN Frame("idle", 0, {}, "none")
          ELSE Frame("classify", 0, batch, "none"))
    ELSE (IF batch = {} THEN Frame("loop", 0, {}, "none")
          ELSE Frame("transmit", Least(batch), batch \ {Least(batch)}, "immediate"))

InitLoops ==
    /\ assets = [a \in AssetIds |-> AssetRow(a, ConfiguredThreshold(a))]
    /\ snapshots = History
    /\ changes = Detected.changes
    /\ alerts = Detected.alerts
    /\ gate = Detected.gate
    /\ sink = Quiet
    /\ now = 0
    /\ call = NoCall
    /\ threads = [crawl |-> Frame("classify", 0, 1..Len(Detected.changes), "none"),
                  alert |-> Frame("start", 0, {}, "none")]
    /\ outbox = [c \in 1..Len(Detected.changes) |-> 0]

\* classify_change up to its commit of the classification
ClassifyCommit(llm) ==
    LET f == threads.crawl
        c == Least(f.batch)
        res == classify_change(Store, c, assets[changes[c].asset_id], llm, FALSE, now)
    IN  /\ f.pc = "classify"
        /\ changes' = res.st.changes
        /\ gate' = res.st.gate
        /\ threads' = [threads EXCEPT !.crawl =
                          IF res.attempted = {c}
                          THEN Frame("transmit", c, f.batch \ {c}, "immediate")
                          ELSE Resume("crawl", f.batch \ {c})]
        /\ UNCHANGED <<assets, snapshots, alerts, sink, now, call, outbox>>

\* send_immediate_alert up to the answer of the sink
Transmit(t) ==
    LET f == threads[t]
    IN  /\ f.pc = "transmit"
        /\ has_slack
        /\ \E sink_ok \in BOOLEAN :
             IF sink_ok
             THEN /\ outbox' = [outbox EXCEPT ![f.c] = @ + 1]
                  /\ threads' = [threads EXCEPT ![t].pc = "record"]
             ELSE /\ outbox' = outbox
                  /\ threads' = [threads EXCEPT ![t] = Resume(t, f.batch)]
        /\ UNCHANGED <<assets, snapshots, changes, alerts, gate, sink, now, call>>

\* the "if success:" block of send_immediate_alert
Record(t) ==
    LET f == threads[t]
        st == MarkOne(Store, f.c, "immediate", now)
    IN  /\ f.pc = "record"
        /\ changes' = st.changes
        /\ alerts' = st.alerts
        /\ threads' = [threads EXCEPT ![t] = Resume(t, f.batch)]
        /\ UNCHANGED <<assets, snapshots, gate, sink, now, call, outbox>>

\* process_pending_alerts: its query
PendingQuery ==
    /\ threads.alert.pc = "start"
    /\ threads' = [threads EXCEPT !.alert =
                      Resume("alert", get_pending_alerts(changes, "high", FALSE, 0))]
    /\ UNCHANGED <<assets, snapshots, changes, alerts, gate, sink, now, call, outbox>>

SweepTier(kind) == IF kind = "daily_digest" THEN "medium" ELSE "low"

SweepWindow(kind) == IF kind = "daily_digest" THEN DAILY_WINDOW ELSE WEEKLY_WINDOW

\* a sweep up to its payload
SweepQuery(kind) ==
    LET pending == get_pending_alerts(changes, SweepTier(kind), TRUE, now - SweepWindow(kind))
    IN  /\ threads.alert.pc = "loop"
        /\ has_slack
        /\ pending # {}
        /\ threads' = [threads EXCEPT !.alert = Frame("sweep_transmit", 0, pending, kind)]
        /\ UNCHANGED <<assets, snapshots, changes, alerts, gate, sink, now, call, outbox>>

\* send_digest of the payload
SweepTransmit ==
    LET f == threads.alert
    IN  /\ f.pc = "sweep_transmit"
        /\ \E sink_ok \in BOOLEAN :
             IF sink_ok
             THEN /\ outbox' = [c \in DOMAIN outbox |->
                                   IF c \in f.batch THEN outbox[c] + 1 ELSE outbox[c]]
                  /\ threads' = [threads EXCEPT !.alert.pc = "sweep_record"]
             ELSE /\ outbox' = outbox
                  /\ threads' = [threads EXCEPT !.alert = Resume("alert", {})]
        /\ UNCHANGED <<assets, snapshots, changes, alerts, gate, sink, now, call>>

\* the "if success:" block of a sweep
SweepRecord ==
    LET f == threads.alert
        st == MarkSent(Store, f.batch, f.kind, now)
    IN  /\ f.pc = "sweep_record"
        /\ changes' = st.changes
        /\ alerts' = st.alerts
        /\ threads' = [threads EXCEPT !.alert = Resume("alert", {})]
        /\ UNCHANGED <<assets, snapshots, gate, sink, now, call, outbox>>

\* an exception inside classify_change or send_immediate_alert: logged by
\* the caller, which goes on with the next change
RaiseCaught(t) ==
    LET f == threads[t]
    IN  /\ \/ t = "crawl" /\ f.pc \in {"classify", "transmit", "record"}
           \/ t = "alert" /\ f.pc \in {"transmit", "record"}
        /\ threads' = [threads EXCEPT ![t] =
                          Resume(t, IF f.pc = "classify"
                                    THEN f.batch \ {Least(f.batch)} ELSE f.batch)]
        /\ UNCHANGED <<assets, snapshots, changes, alerts, gate, sink, now, call, outbox>>

\* an exception inside a scheduled sweep (a query or a commit that fails):
\* it leaves send_daily_digest, schedule.run_pending and the while loop
RaiseInSweep ==
    /\ threads.alert.pc \in {"loop", "sweep_transmit", "sweep_record"}
    /\ threads' = [threads EXCEPT !.alert.pc = "terminated"]
    /\ UNCHANGED <<assets, snapshots, changes, alerts, gate, sink, now, call, outbox>>

\* an exception inside a scheduled crawl_due_assets outside its try blocks
\* (_sync_assets_from_config, the asset queries)
RaiseInCycle ==
    /\ threads.crawl.pc = "idle"
    /\ threads' = [threads EXCEPT !.crawl.pc = "terminated"]
    /\ UNCHANGED <<assets, snapshots, changes, alerts, gate, sink, now, call, outbox>>

\* Ctrl+C: KeyboardInterrupt ends the main thread wherever it is, and the
\* exit of the process ends the daemon thread wherever it is
Stop ==
    /\ \A t \in DOMAIN threads : threads[t].pc # "stopped"
    /\ threads' = [t \in DOMAIN threads |-> [threads[t] EXCEPT !.pc = "stopped"]]
    /\ UNCHANGED <<assets, snapshots, changes, alerts, gate, sink, now, call, outbox>>

NextLoops ==
    \/ \E llm \in AnsweredOutcomes : ClassifyCommit(llm)
    \/ \E t \in {"crawl", "alert"} : Transmit(t)
    \/ \E t \in {"crawl", "alert"} : Record(t)
    \/ PendingQuery
    \/ \E kind \in {"daily_digest", "weekly_summary"} : SweepQuery(kind)
    \/ SweepTransmit
    \/ SweepRecord
    \/ \E t \in {"crawl", "alert"} : RaiseCaught(t)
    \/ RaiseInSweep
    \/ RaiseInCycle
    \/ Stop

SpecLoops == InitLoops /\ [][NextLoops]_vars

\* Two workers running detect_changes_for_asset over the same store (the
\* detection of _crawl_asset and that of detect_changes_for_all_assets, or
\* two processes), each advancing from its queries to its insert.
\*   idle     not in detect_changes_for_asset
\*   insert   the queries found no Change for the newest snapshot and the
\*            row is built; session.add and commit come next
Workers == {"w1", "w2"}

InitWorkers ==
    /\ assets = [a \in AssetIds |-> AssetRow(a, ConfiguredThreshold(a))]
    /\ snapshots = History
    /\ changes = <<>>
    /\ alerts = <<>>
    /\ gate = <<>>
    /\ sink = Quiet
    /\ now = 0
    /\ call = NoCall
    /\ threads = [w \in Workers |-> [pc |-> "idle", row |-> NoDict]]
    /\ outbox = <<>>

\* detect_changes_for_asset up to _create_change_record: the queries for the
\* last two snapshots and for an existing Change, the diff, the analysis
WorkerCheck(w, a, sem) ==
    LET res == detect_changes_for_asset(snapshots, changes, a, assets[a].asset_type, sem, now)
    IN  /\ threads[w].pc = "idle"
        /\ sem.kind # "none" => ReachesSemantic(snapshots, a)
        /\ res.row # NoDict
        /\ threads' = [threads EXCEPT ![w] = [pc |-> "insert", row |-> res.row]]
        /\ UNCHANGED <<assets, snapshots, changes, alerts, gate, sink, now, call, outbox>>

\* session.add(change); session.commit()
WorkerInsert(w) ==
    LET st == AddChange(Store, threads[w].row)
    IN  /\ threads[w].pc = "insert"
        /\ changes' = st.changes
        /\ gate' = st.gate
        /\ threads' = [threads EXCEPT ![w] = [pc |-> "idle", row |-> NoDict]]
        /\ UNCHANGED <<assets, snapshots, alerts, sink, now, call, outbox>>

\* the commit raises (the database is locked by the other writer): the
\* session is rolled back and the worker's detection ends without a row
WorkerCommitFails(w) ==
    /\ threads[w].pc = "insert"
    /\ threads' = [threads EXCEPT ![w] = [pc |-> "idle", row |-> NoDict]]
    /\ UNCHANGED <<assets, snapshots, changes, alerts, gate, sink, now, call, outbox>>

NextWorkers ==
    \/ \E w \in Workers, a \in AssetIds, sem \in SemanticOutcomes : WorkerCheck(w, a, sem)
    \/ \E w \in Workers : WorkerInsert(w)
    \/ \E w \in Workers : WorkerCommitFails(w)

SpecWorkers == InitWorkers /\ [][NextWorkers]_vars

\* One detection cycle over all assets (detect_changes_for_all_assets) on a
\* store in which each asset was crawled twice.  For each asset the
\* detection runs to its end, or raises before its commit ("before": a query
\* or the diff fails, the session is rolled back), or raises after it
\* ("after": the row is committed, and the caller never gets it).
Histories ==
    {LET s1 == <<NewSnapshot(<<>>, 1, p1)>>
         s2 == Append(s1, NewSnapshot(s1, 2, q1))
         s3 == Append(s2, NewSnapshot(s2, 1, p2))
     IN  Append(s3, NewSnapshot(s3, 2, q2)) :
        p1 \in Pages(AssetType(1)), p2 \in Pages(AssetType(1)) \cup {FailedFetch},
        q1 \in Pages(AssetType(2)), q2 \in Pages(AssetType(2))}

FailureModes == {"none", "before", "after"}

\* the body of the for loop, for asset a
DetectInCycle(snaps, acc, a, fail, sem, day) ==
    LET det == detect_changes_for_asset(snaps, acc.st.changes, a, AssetType(a), sem[a], day)
        st1 == IF Truthy(det.row) THEN AddChange(acc.st, det.row) ELSE acc.st
    IN  IF fail[a] = "before"
        THEN [acc EXCEPT !.visited = @ \cup {a}]
        ELSE [st |-> st1,
              visited |-> acc.visited \cup {a},
              all_changes |-> IF Truthy(det.row) /\ fail[a] = "none"
                              THEN acc.all_changes \cup {Len(st1.changes)}
                              ELSE acc.all_changes]

RECURSIVE CycleAborting(_, _, _, _, _, _)
CycleAborting(snaps, acc, todo, fail, sem, day) ==
    IF todo = {}
    THEN acc
    ELSE LET a == CHOOSE x \in todo : \A y \in todo : x <= y
         IN  IF fail[a] # "none"
             THEN DetectInCycle(snaps, acc, a, fail, sem, day)
             ELSE CycleAborting(snaps, DetectInCycle(snaps, acc, a, fail, sem, day),
                                todo \ {a}, fail, sem, day)

\* for asset_id in asset_ids: try ... except Exception: logger.error
RECURSIVE Cycle(_, _, _, _, _, _)
Cycle(snaps, acc, todo, fail, sem, day) ==
    IF todo = {}
    THEN acc
    ELSE LET a == CHOOSE x \in todo : \A y \in todo : x <= y
         IN  Cycle(snaps, DetectInCycle(snaps, acc, a, fail, sem, day),
                   todo \ {a}, fail, sem, day)

detect_changes_for_all_assets(snaps, st, fail, sem, day) ==
    Cycle(snaps, [st |-> st, visited |-> {}, all_changes |-> {}], AssetIds, fail, sem, day)

InitCycle ==
    /\ assets = [a \in AssetIds |-> AssetRow(a, ConfiguredThreshold(a))]
    /\ snapshots \in Histories
    /\ changes = <<>>
    /\ alerts = <<>>
    /\ gate = <<>>
    /\ sink = Quiet
    /\ now = 0
    /\ call = NoCall
    /\ threads = NoThreads
    /\ outbox = <<>>

DetectionCycle ==
    /\ \E fail \in [AssetIds -> FailureModes], sem \in [AssetIds -> SemanticOutcomes] :
         LET res == detect_changes_for_all_assets(snapshots, Store, fail, sem, now)
         IN  /\ changes' = res.st.changes
             /\ gate' = res.st.gate
             /\ call' = [op |-> "detect_changes_for_all_assets", fail |-> fail,
                         visited |-> res.visited, all_changes |-> res.all_changes]
    /\ UNCHANGED <<assets, snapshots, alerts, sink, now, threads, outbox>>

NextCycle ==
    \/ DetectionCycle

SpecCycle == InitCycle /\ [][NextCycle]_vars

TypeOK ==
    /\ Len(changes) = Len(gate)
    /\ \A c \in ChangeIds : changes[c].priority \in Priorities \cup {None}
    /\ \A i \in 1..Len(alerts) : alerts[i].change_id \in ChangeIds
    /\ sink.accepted \subseteq sink.attempted
    /\ sink.attempted \subseteq ChangeIds

\* ----------------------------------------------------------------- claims
\* the Alert records of change c, and those a step appends
AlertsOf(table, c) == {i \in 1..Len(table) : table[i].change_id = c}

Appended == SubSeq(alerts', Len(alerts) + 1, Len(alerts'))

Sweeps == {"daily_digest", "weekly_summary"}

\* C1: after any sequence of snapshot insertions and detections the store
\* holds at most one Change per "after" snapshot, and detection invoked on a
\* snapshot pair that already produced a Change creates no Change and
\* returns the empty list.
C1_OneChangePerAfterSnapshot ==
    /\ \A c, d \in ChangeIds :
         changes[c].snapshot_after_id = changes[d].snapshot_after_id => c = d
    /\ \A a \in AssetIds : \A sem \in SemanticOutcomes :
         LET pair == LastTwoSnapshots(snapshots, a)
         IN  (pair # <<>> /\ \E c \in ChangeIds : changes[c].snapshot_after_id = pair[1])
                => ~Truthy(detect_changes_for_asset(snapshots, changes, a,
                                                    assets[a].asset_type, sem, now).row)

\* two changes of one asset are on record, the second for its newest pair
C1_Witness ==
    \E c, d \in ChangeIds :
        /\ c # d
        /\ changes[c].asset_id = changes[d].asset_id
        /\ LastTwoSnapshots(snapshots, changes[c].asset_id)[1] = changes[c].snapshot_after_id

\* C2: a Change whose classification fails the quality gate is never handed
\* to the notification sink by any operation (immediate path,
\* process_pending_alerts, daily digest, weekly summary).
C2_GateFailedNeverTransmitted ==
    [][\A c \in ChangeIds :
         (gate'[c].classified /\ ~gate'[c].valid) => c \notin sink'.attempted]_vars

\* C3: a Change whose assigned priority is below its asset's configured
\* threshold is never handed to the notification sink, neither immediately
\* nor by a daily-digest or weekly-summary sweep.
C3_BelowThresholdNeverTransmitted ==
    [][\A c \in ChangeIds :
         LET threshold == assets[changes[c].asset_id].priority_threshold
         IN  (/\ gate'[c].classified
              /\ threshold # None
              /\ priority_levels(changes'[c].priority) < priority_levels(threshold))
                => c \notin sink'.attempted]_vars

\* C4: the immediate path on a Change already marked sent transmits nothing
\* and appends no Alert record.
C4_ImmediatePathSkipsSent ==
    [][\A c \in ChangeIds :
         changes[c].alert_sent
            => /\ ~(sink'.channel = "immediate" /\ c \in sink'.attempted)
               /\ \A i \in AlertsOf(alerts', c) \ AlertsOf(alerts, c) :
                    alerts'[i].delivery_type # "immediate"]_vars

C7_ThresholdOrdinal ==
    \A c \in ChangeIds :
        LET T == assets[changes[c].asset_id].priority_threshold
        IN  (gate[c].classified /\ gate[c].valid /\ T \in Priorities)
               => (~gate[c].alert
                     <=> priority_levels(changes[c].priority) < priority_levels(T))

\* a low-priority change under threshold medium was suppressed and a
\* medium-priority change under threshold medium was not
C7_Witness ==
    \E c, d \in ChangeIds :
        /\ assets[changes[c].asset_id].priority_threshold = "medium"
        /\ assets[changes[d].asset_id].priority_threshold = "medium"
        /\ gate[c].valid /\ changes[c].priority = "low" /\ ~gate[c].alert
        /\ gate[d].valid /\ changes[d].priority = "medium" /\ gate[d].alert

\* C8: without a configured priority_threshold the router applies the
\* default threshold medium: a low-priority Change that passes the quality
\* gate is suppressed, a medium or high one is not.
C8_DefaultThresholdMedium ==
    \A c \in ChangeIds :
        (/\ gate[c].classified
         /\ gate[c].valid
         /\ assets[changes[c].asset_id].priority_threshold = None)
            => (~gate[c].alert <=> changes[c].priority = "low")

C10_ChannelFollowsPriority ==
    /\ sink.channel = "immediate"
         => \A c \in sink.attempted : changes[c].priority = "high"
    /\ \A i \in 1..Len(alerts) :
         /\ alerts[i].delivery_type = "immediate" => alerts[i].priority = "high"
         /\ alerts[i].delivery_type = "daily_digest" => alerts[i].priority = "medium"
         /\ alerts[i].delivery_type = "weekly_summary" => alerts[i].priority = "low"
         /\ alerts[i].delivery_type \in Sweeps \cup {"immediate"}

\* a medium-priority change has gone out by digest and a low-priority one by
\* the weekly summary
C10_Witness ==
    /\ \E i \in 1..Len(alerts) : alerts[i].delivery_type = "daily_digest"
    /\ \E i \in 1..Len(alerts) : alerts[i].delivery_type = "weekly_summary"

\* what a sweep of a tier and a window should carry, from the rows
Payload(priority, window) ==
    {c \in ChangeIds : /\ changes[c].priority = priority
                       /\ ~changes[c].alert_sent
                       /\ now - changes[c].detected_at <= window}

\* C11: the payload of a sweep is exactly the set of changes whose priority
\* is the sweep's tier (medium for the daily digest, low for the weekly
\* summary), that are not marked sent, and that were detected no longer ago
\* than the sweep's window (a day, seven days) when the sweep runs.
C11_SweepPayload ==
    [][/\ sink'.channel = "daily_digest"
          => sink'.attempted = Payload("medium", DAILY_WINDOW)
       /\ sink'.channel = "weekly_summary"
          => sink'.attempted = Payload("low", WEEKLY_WINDOW)]_vars

\* a daily digest went out while an unsent medium change older than a day
\* stayed behind, or a weekly summary while a low one older than a week did
C11_Witness ==
    \/ /\ sink.channel = "daily_digest"
       /\ \E d \in ChangeIds \ sink.attempted :
            /\ changes[d].priority = "medium"
            /\ ~changes[d].alert_sent
            /\ now - changes[d].detected_at = DAILY_WINDOW + 1
       /\ \E c \in sink.attempted : now - changes[c].detected_at = DAILY_WINDOW
    \/ /\ sink.channel = "weekly_summary"
       /\ \E d \in ChangeIds \ sink.attempted :
            /\ changes[d].priority = "low"
            /\ ~changes[d].alert_sent
            /\ now - changes[d].detected_at = WEEKLY_WINDOW + 1
       /\ \E c \in sink.attempted : now - changes[c].detected_at = WEEKLY_WINDOW

\* C12: for two snapshots with the same content hash compare_snapshots
\* returns nothing, and detect_changes_for_asset then returns without having
\* called the semantic service and without a Change.
C12_EqualHashNoChange ==
    Applied("detect_changes_for_asset") =>
        LET snapshot_before == call.args.snaps[1]
            snapshot_after == call.args.snaps[2]
        IN  (/\ snapshot_before.asset_id = call.args.asset_id
             /\ snapshot_before.content_hash = snapshot_after.content_hash)
            => /\ compare_snapshots(snapshot_before, snapshot_after,
                                    AssetType(call.args.asset_id)) = NoDict
               /\ call.ret.row = NoDict
               /\ ~call.ret.llm_called

\* detection ran, with the semantic service answering, on two snapshots
\* with the same text and hash whose structured bags differ
C12_Witness ==
    /\ Applied("detect_changes_for_asset")
    /\ call.args.sem.kind = "answer"
    /\ call.args.snaps[1].asset_id = call.args.asset_id
    /\ call.args.snaps[1].content_hash = call.args.snaps[2].content_hash
    /\ call.args.snaps[1].content_text # NoText
    /\ call.args.snaps[1].metadata_json # call.args.snaps[2].metadata_json
    /\ call.ret.row = NoDict

\* C13: is_significant_change(evidence, threshold) is true exactly when the
\* evidence has a non-empty structured diff, or its change percentage is at
\* least the threshold, or its added and removed line counts sum to more
\* than ten; with a non-empty structured diff it is true whatever the
\* percentage.
C13_SignificantIff ==
    Applied("is_significant_change") =>
        LET evidence == call.args.change_data
            lines == evidence.text_diff.added_count + evidence.text_diff.removed_count
        IN  /\ call.ret = TRUE
                <=> \/ evidence.structured_diff # NoDict
                    \/ evidence.content_change_percentage >= call.args.threshold
                    \/ lines > LINES_THRESHOLD
            /\ evidence.structured_diff # NoDict => call.ret = TRUE

\* evidence without a structured diff and without a changed line, whose
\* percentage is exactly the threshold, was judged significant
C13_Witness ==
    /\ Applied("is_significant_change")
    /\ call.args.change_data.content_change_percentage = call.args.threshold
    /\ call.args.change_data.structured_diff = NoDict
    /\ call.args.change_data.text_diff.added_count = 0
    /\ call.args.change_data.text_diff.removed_count = 0
    /\ call.ret = TRUE

\* C14: filter_noise is true exactly when the analysis rates the change
\* "low" and the change percentage is below 2.0, or the analysis puts it in
\* the category "other" and the percentage is below 1.0 (the rating and the
\* category are read in lower case, a missing rating is "medium"); and when
\* it is true for a significant diff, detect_changes_for_asset creates no
\* Change.
C14_NoiseFilter ==
    /\ Applied("filter_noise") =>
          LET pct == call.args.change_data.content_change_percentage
              analysis == call.args.semantic_analysis
              rated_low == /\ "significance" \in DOMAIN analysis
                           /\ analysis.significance \in {"low", "Low"}
              other == /\ "change_type" \in DOMAIN analysis
                       /\ analysis.change_type \in {"other", "Other"}
          IN  call.ret = TRUE <=> \/ rated_low /\ pct < NOISE_LOW_PCT
                                  \/ other /\ pct < NOISE_OTHER_PCT
    /\ Applied("detect_changes_for_asset") =>
          LET snapshot_before == call.args.snaps[1]
              snapshot_after == call.args.snaps[2]
              asset_type == AssetType(call.args.asset_id)
              change_data == compare_snapshots(snapshot_before, snapshot_after, asset_type)
          IN  (/\ snapshot_before.asset_id = call.args.asset_id
               /\ call.args.sem.kind # "none"
               /\ change_data # NoDict
               /\ is_significant_change(change_data, SIGNIFICANCE_THRESHOLD)
               /\ filter_noise(change_data, analyze_change(call.args.sem, asset_type)))
              => call.ret.row = NoDict /\ call.ret.llm_called

\* a price change in a page that changed by less than one percent was
\* analysed as "Other" or "low", and detection returned without a Change
C14_Witness ==
    /\ Applied("detect_changes_for_asset")
    /\ call.args.sem.kind = "answer"
    /\ call.args.snaps[1].asset_id = call.args.asset_id
    /\ call.args.snaps[1].content_hash # call.args.snaps[2].content_hash
    /\ call.args.snaps[1].content_text # NoText
    /\ call.args.snaps[2].content_text # NoText
    /\ call.args.snaps[1].metadata_json # call.args.snaps[2].metadata_json
    /\ AssetType(call.args.asset_id) = "pricing"
    /\ call.ret.llm_called
    /\ call.ret.row = NoDict

\* summary.split('. ')
RECURSIVE Split(_)
Split(s) ==
    IF \A i \in 1..Len(s) : s[i] # SEP
    THEN <<s>>
    ELSE LET at == CHOOSE i \in 1..Len(s) : s[i] = SEP /\ \A j \in 1..(i - 1) : s[j] # SEP
         IN  <<SubSeq(s, 1, at - 1)>> \o Split(SubSeq(s, at + 1, Len(s)))

\* C15: a classifier answer whose summary has more than three sentences
\* (pieces between ". ") comes out of _validate_classification with exactly
\* its first three sentences, the last one closed by a period like the
\* others; a summary of three sentences or fewer comes out as it went in.
C15_SummaryTruncated ==
    Applied("_validate_classification") =>
        LET before == Split(call.args.result.summary)
            after == Split(call.ret.summary)
            last == after[Len(after)]
        IN  IF Len(before) > MAX_SENTENCES
            THEN /\ Len(after) = MAX_SENTENCES
                 /\ \A i \in 1..(MAX_SENTENCES - 1) : after[i] = before[i]
                 /\ last \in {before[MAX_SENTENCES], before[MAX_SENTENCES] \o <<DOT>>}
                 /\ last[Len(last)] \in {DOT, "etc."}
            ELSE call.ret.summary = call.args.result.summary

\* a summary of more than three sentences was cut down to three
C15_Witness ==
    /\ Applied("_validate_classification")
    /\ Len(Split(call.args.result.summary)) > MAX_SENTENCES
    /\ Len(Split(call.ret.summary)) = MAX_SENTENCES
    /\ call.ret.summary # call.args.result.summary

\* the tiers of a bag are told apart by their names
DistinctNames(bag) ==
    \A i, j \in 1..Len(bag.tiers) : bag.tiers[i].name = bag.tiers[j].name => i = j

\* the names whose tier is not the same in the two bags
Differing(before, after) ==
    {n \in TierNames(before.tiers) :
        TierByName(before.tiers, n) # TierByName(after.tiers, n)}

\* C16: when two pricing bags have the same tier names and exactly one tier
\* differs between them, in its price only, the structured diff has exactly
\* one tier_change, which carries that tier's price_before and price_after,
\* and the evidence is judged significant.
C16_OnePriceChange ==
    Applied("compare_snapshots") =>
        LET before == call.args.snapshot_before.metadata_json
            after == call.args.snapshot_after.metadata_json
        IN  (/\ DistinctNames(before) /\ DistinctNames(after)
             /\ TierNames(before.tiers) = TierNames(after.tiers)
             /\ Cardinality(Differing(before, after)) = 1
             /\ \A n \in Differing(before, after) :
                  TierByName(before.tiers, n).features = TierByName(after.tiers, n).features)
            => /\ Truthy(call.ret.change_data.structured_diff)
               /\ \E n \in Differing(before, after) :
                    call.ret.change_data.structured_diff.tier_changes =
                        {[tier |-> n,
                          price_before |-> TierByName(before.tiers, n).price,
                          price_after |-> TierByName(after.tiers, n).price]}
               /\ call.ret.significant

\* the scenario: Plan A went from $10/mo to $15/mo in a page that changed
\* by less than the threshold, and the evidence was judged significant
C16_Witness ==
    /\ Applied("compare_snapshots")
    /\ call.args.snapshot_before.metadata_json = PricingBag("$10/mo")
    /\ call.args.snapshot_after.metadata_json = PricingBag("$15/mo")
    /\ call.ret.change_data.content_change_percentage < SIGNIFICANCE_THRESHOLD
    /\ Cardinality(call.ret.change_data.structured_diff.tier_changes) = 1
    /\ call.ret.significant

\* C17: with the crawl loop and the alert loop running side by side, the
\* sink accepts at most one message about a change and a change has at most
\* one Alert record.
C17_NoDuplicateAcrossLoops ==
    \A c \in ChangeIds :
        /\ outbox[c] <= 1
        /\ Cardinality(AlertsOf(alerts, c)) <= 1

\* C18: when two workers run detect_changes_for_asset for the same asset
\* at once, the look-up of an existing Change before the insert keeps the
\* store free of two Changes for one after-snapshot, however their queries
\* and inserts interleave.
C18_NoDuplicateUnderInterleaving ==
    \A s \in 1..Len(snapshots) :
        Cardinality({c \in ChangeIds : changes[c].snapshot_after_id = s}) <= 1

\* C19: once the loops are stopped, no change is left half-delivered:
\* accepted by the sink, but neither marked sent nor with an Alert record.
C19_NoHalfDeliveredAfterStop ==
    (\E t \in DOMAIN threads : threads[t].pc = "stopped")
        => \A c \in ChangeIds :
              outbox[c] > 0 => changes[c].alert_sent \/ AlertsOf(alerts, c) # {}

\* C20: whatever is raised while a scheduled crawl cycle or sweep runs, the
\* periodic loop that ran it goes on.
C20_LoopsSurviveFailures ==
    \A t \in DOMAIN threads : threads[t].pc # "terminated"

\* would detect_changes_for_asset, run for asset a on the store as it is,
\* create a Change whatever the semantic service answers?
CreatesForSure(a) ==
    \A sem \in SemanticOutcomes :
        Truthy(detect_changes_for_asset(snapshots, changes, a, AssetType(a), sem, now).row)

\* C21: in a detection cycle over all assets an error in the detection of
\* one asset does not end the cycle: detection is run for every asset, the
\* Changes the store held stay, and an asset whose detection did not fail
\* gets its Change although the detection of another asset failed.
C21_CycleSurvivesAssetError ==
    [][call'.op = "detect_changes_for_all_assets" =>
          /\ call'.visited = AssetIds
          /\ Len(changes') >= Len(changes)
          /\ SubSeq(changes', 1, Len(changes)) = changes
          /\ \A a \in AssetIds :
                (call'.fail[a] # "before" /\ CreatesForSure(a))
                => \E c \in (Len(changes) + 1)..Len(changes') : changes'[c].asset_id = a]_vars

\* a cycle in which the detection of the first asset raised and the second
\* asset got its Change
C21_Witness ==
    /\ call.op = "detect_changes_for_all_assets"
    /\ call.fail[1] = "before"
    /\ call.fail[2] = "none"
    /\ \E c \in ChangeIds : changes[c].asset_id = 2 /\ c \in call.all_changes
    /\ \A c \in ChangeIds : changes[c].asset_id # 1

\* C22: a second run of the detection on a pair of snapshots that was
\* already processed creates no Change and does not call the semantic
\* service, also when the first run created no Change.
C22_RerunIsNoOp ==
    Applied("rerun") =>
        /\ ~Truthy(call.ret.second.row)
        /\ ~call.ret.second.llm_called

\* the snapshots of asset a in snaps, and the one captured last and the one
\* captured before it
SnapshotsOf(snaps, a) == {i \in 1..Len(snaps) : snaps[i].asset_id = a}

Newest(snaps, S) ==
    CHOOSE i \in S : \A j \in S : snaps[j].crawl_timestamp <= snaps[i].crawl_timestamp

\* the conditions under which a run on snaps, with the Changes chgs in the
\* store and the semantic service answering sem, may create a Change
MayCreate(snaps, chgs, a, sem) ==
    /\ Cardinality(SnapshotsOf(snaps, a)) >= 2
    /\ LET after == Newest(snaps, SnapshotsOf(snaps, a))
           before == Newest(snaps, SnapshotsOf(snaps, a) \ {after})
           evidence == compare_snapshots(snaps[before], snaps[after], AssetType(a))
       IN  /\ \A c \in 1..Len(chgs) : chgs[c].snapshot_after_id # after
           /\ Truthy(evidence)
           /\ is_significant_change(evidence, SIGNIFICANCE_THRESHOLD)
           /\ sem.kind # "none" => ~filter_noise(evidence, analyze_change(sem, AssetType(a)))

\* C23: detect_changes_for_asset creates a Change only if the asset has at
\* least two snapshots, no Change exists for the newest one, compare_snapshots
\* returned evidence, the evidence is significant and the semantic result, if
\* there is one, is not judged noise.
C23_CreatesOnlyIf ==
    /\ Applied("detect_changes_for_asset") /\ Truthy(call.ret.row)
        => MayCreate(call.args.snaps, <<>>, call.args.asset_id, call.args.sem)
    /\ Applied("rerun") /\ Truthy(call.ret.first.row)
        => MayCreate(call.args.snaps, <<>>, call.args.asset_id, call.args.sem1)
    /\ Applied("rerun") /\ Truthy(call.ret.second.row)
        => MayCreate(call.args.snaps,
                     IF Truthy(call.ret.first.row) THEN <<call.ret.first.row>> ELSE <<>>,
                     call.args.asset_id, call.args.sem2)

\* a first run that created a Change with the semantic service answering,
\* and a second run that left the store as it was
C23_Witness ==
    /\ Applied("rerun")
    /\ call.args.sem1.kind = "answer"
    /\ Truthy(call.ret.first.row)
    /\ ~Truthy(call.ret.second.row)

\* the Change row r lies on two successive snapshots of its asset
Adjacent(snaps, r) ==
    LET before == snaps[r.snapshot_before_id]
        after == snaps[r.snapshot_after_id]
    IN  /\ before.asset_id = r.asset_id
        /\ after.asset_id = r.asset_id
        /\ before.crawl_timestamp < after.crawl_timestamp
        /\ \A i \in SnapshotsOf(snaps, r.asset_id) :
              ~(/\ before.crawl_timestamp < snaps[i].crawl_timestamp
                /\ snaps[i].crawl_timestamp < after.crawl_timestamp)

\* C24: when a Change is created, its "before" and "after" snapshots belong
\* to the asset of the Change, "before" was captured earlier than "after",
\* and no snapshot of that asset was captured between the two.
C24_AdjacentSnapshots ==
    [][\A c \in (Len(changes) + 1)..Len(changes') : Adjacent(snapshots', changes'[c])]_vars

\* a Change on the second and third snapshot of an asset
C24_Witness ==
    \E c \in ChangeIds :
        \E i \in SnapshotsOf(snapshots, changes[c].asset_id) :
            snapshots[i].crawl_timestamp
                < snapshots[changes[c].snapshot_before_id].crawl_timestamp

\* the evidence compare_snapshots gives on the two snapshots of a call
EvidenceOf(args) ==
    compare_snapshots(args.snaps[1], args.snaps[2], AssetType(args.asset_id))

\* C25: when the semantic analysis is not available or fails, the stored
\* Change carries the summary made from the line counts and the change
\* percentage and the fallback rationale, not the generic summary, the
\* category "unknown" and the empty rationale of the degraded result.
C25_FallbackOnFailure ==
    (/\ Applied("detect_changes_for_asset")
     /\ call.args.sem.kind \in {"none", "error"}
     /\ Truthy(call.ret.row))
    => /\ call.ret.row.summary
            = _generate_basic_summary(EvidenceOf(call.args), AssetType(call.args.asset_id))
       /\ call.ret.row.why_it_matters
            = <<"change", "detected", "on", AssetType(call.args.asset_id), "page">>
       /\ call.ret.row.change_type # "unknown"

\* C26: a failure of the semantic service does not block the detection:
\* whether the call raises, gives the degraded result or gives text that
\* cannot be parsed, a significant difference still becomes a Change, and
\* the result of a failed call is never judged noise.
C26_FailureNeverBlocks ==
    (/\ Applied("detect_changes_for_asset")
     /\ call.args.sem.kind \in {"error", "unparsable", "raise"}
     /\ call.args.snaps[1].asset_id = call.args.asset_id
     /\ Truthy(EvidenceOf(call.args))
     /\ is_significant_change(EvidenceOf(call.args), SIGNIFICANCE_THRESHOLD))
    => /\ Truthy(call.ret.row)
       /\ call.ret.llm_called
       /\ ~filter_noise(EvidenceOf(call.args),
                        analyze_change(call.args.sem, AssetType(call.args.asset_id)))

\* a price change on a page whose text changed by less than one percent,
\* kept although the reply of the service could not be parsed
C26_Witness ==
    /\ Applied("detect_changes_for_asset")
    /\ call.args.sem.kind = "unparsable"
    /\ Truthy(call.ret.row)
    /\ EvidenceOf(call.args).content_change_percentage < NOISE_OTHER_PCT

\* category, summary and rationale of a call of assign_priority, each taken
\* from the classification, or from the Change where the classification has
\* none, lower-cased and put together
CombinedText(change, classification) ==
    <<Lower(OrType(classification.change_type, change.change_type))>>
        \o LowerStr(OrStr(classification.summary, change.summary))
        \o LowerStr(OrStr(classification.why_it_matters, change.why_it_matters))

Matches(keywords, text) == \E k \in keywords : Contains(text, k)

\* C27: assign_priority returns the stated priority of a classification
\* whose confidence is at least 0.7 (the stated priority being one of high,
\* medium, low); below 0.7 the result is the priority of the keyword rules
\* on category, summary and rationale, whatever the stated priority.
C27_StatedPriorityIffConfident ==
    Applied("assign_priority") =>
        LET cl == call.ret.classification
        IN  /\ (cl.confidence >= CONFIDENT /\ cl.priority \in Priorities)
                => call.ret.priority = cl.priority
            /\ cl.confidence < CONFIDENT
                => \A p \in Priorities :
                      /\ call.ret.priority
                            = _rule_based_priority(call.args.change, [cl EXCEPT !.priority = p])
                      /\ call.ret.priority
                            = assign_priority(call.args.change, [cl EXCEPT !.priority = p])

\* a classification of confidence just below 0.7 whose stated priority is
\* not the one returned
C27_Witness ==
    /\ Applied("assign_priority")
    /\ call.ret.classification.confidence = CONFIDENT - 1
    /\ call.ret.classification.priority = "high"
    /\ call.ret.priority = "low"

\* C28: on the keyword path the priority is high if a high keyword matches
\* and no low keyword matches; otherwise medium if a medium keyword matches;
\* otherwise low if a low keyword matches; otherwise the default of the
\* category (pricing, compliance: high; changelog, news: medium; else low).
C28_KeywordOrder ==
    (Applied("assign_priority") /\ call.ret.classification.confidence < CONFIDENT) =>
        LET text == CombinedText(call.args.change, call.ret.classification)
            high == Matches(HIGH_PRIORITY_KEYWORDS, text)
            medium == Matches(MEDIUM_PRIORITY_KEYWORDS, text)
            low == Matches(LOW_PRIORITY_KEYWORDS, text)
        IN  call.ret.priority = IF high /\ ~low THEN "high"
                                ELSE IF medium THEN "medium"
                                ELSE IF low THEN "low"
                                ELSE IF text[1] \in {"pricing", "compliance"} THEN "high"
                                ELSE IF text[1] \in {"changelog", "news"} THEN "medium"
                                ELSE "low"

\* a text with a high and a low keyword and no medium keyword: low
C28_Witness ==
    /\ Applied("assign_priority")
    /\ call.ret.classification.confidence < CONFIDENT
    /\ LET text == CombinedText(call.args.change, call.ret.classification)
       IN  /\ Matches(HIGH_PRIORITY_KEYWORDS, text)
           /\ Matches(LOW_PRIORITY_KEYWORDS, text)
           /\ ~Matches(MEDIUM_PRIORITY_KEYWORDS, text)
    /\ call.ret.priority = "low"

\* the stored difference d shows entries under key
Shows(d, key) == Get(d, key, {}) # {}

\* C29: when the classification call or its parsing fails, classify_change
\* returns the rule result: high if the category is pricing or compliance,
\* or the structured difference shows tier changes, new certifications or
\* added features, whatever the category; medium for changelog; low for blog
\* or content; medium otherwise.
C29_RuleResultOnFailure ==
    Applied("classify_change") =>
        LET t == call.args.change_type
            d == call.args.diff_metadata_json
        IN  call.ret.priority =
                IF \/ t \in {"pricing", "compliance"}
                   \/ Shows(d, "tier_changes")
                   \/ Shows(d, "new_certifications")
                   \/ Shows(d, "features_added")
                THEN "high"
                ELSE IF t = "changelog" THEN "medium"
                ELSE IF t \in {"blog", "content"} THEN "low"
                ELSE "medium"

\* C30: the priority stored on a Change is null or one of high, medium,
\* low, and the classification handed to the priority assigner and to the
\* quality gate has a confidence between 0.0 and 1.0, whatever the
\* classification service returned.
C30_PriorityAndConfidenceInRange ==
    /\ Applied("assign_priority")
        => /\ call.ret.priority \in Priorities
           /\ call.ret.classification.confidence \in 0..100
    /\ Applied("detect_changes_for_asset") /\ Truthy(call.ret.row)
        => call.ret.row.priority = None

\* the service stated a priority outside the three and a confidence above
\* 1.0
C30_Witness ==
    /\ Applied("assign_priority")
    /\ call.args.llm.kind = "answer"
    /\ call.args.llm.raw.priority = "urgent"
    /\ call.args.llm.raw.confidence > 100
    /\ call.ret.classification.confidence = 100

\* the summary and the rationale validate_quality looks at: those of the
\* classification, or those of the Change where the classification has none
SummaryOf(args) == OrStr(args.classification.summary, args.change.summary)

RationaleOf(args) == OrStr(args.classification.why_it_matters, args.change.why_it_matters)

\* number of characters of s without the blanks at its ends
TrimmedLen(s) == SumLen(Strip(s)) + Gaps(Strip(s))

\* the five rejection conditions of C31
Rejectable(args) ==
    \/ SummaryOf(args) = <<>>
    \/ SentenceCount(SummaryOf(args)) > MAX_SENTENCES
    \/ RationaleOf(args) = <<>>
    \/ TrimmedLen(RationaleOf(args)) < MIN_RATIONALE_LEN
    \/ args.classification.confidence < MIN_CONFIDENCE
    \/ args.change.before_content = NoText
    \/ args.change.after_content = NoText

\* the rationale holds a speculative word and no allowed hedge phrase
Unhedged(args) ==
    /\ \E w \in SpeculativeWords : Contains(LowerStr(RationaleOf(args)), w)
    /\ \A ph \in AllowedPhrases : ~Contains(LowerStr(RationaleOf(args)), ph)

\* C31: validate_quality rejects when the summary is missing or has more
\* than 3 sentences, when the rationale is missing or shorter than 10
\* characters after trimming, when the confidence is below 0.3 and when the
\* before or the after text of the Change is missing; it accepts when none
\* of its rejection conditions holds.
C31_QualityGate ==
    Applied("validate_quality") =>
        /\ Rejectable(call.args) => call.ret # "ok"
        /\ (~Rejectable(call.args) /\ ~Unhedged(call.args)) => call.ret = "ok"

\* a rationale of ten characters and more with its blanks, of two without,
\* rejected although nothing else is wrong
C31_Witness ==
    /\ Applied("validate_quality")
    /\ RationaleOf(call.args) = <<PAD, "ok", PAD>>
    /\ SummaryOf(call.args) # <<>>
    /\ SentenceCount(SummaryOf(call.args)) <= MAX_SENTENCES
    /\ call.args.classification.confidence >= MIN_CONFIDENCE
    /\ call.args.change.before_content # NoText
    /\ call.args.change.after_content # NoText
    /\ call.ret # "ok"

\* the word at position i of text opens an allowed hedge phrase
OpensAllowedPhrase(text, i) ==
    \E ph \in AllowedPhrases :
        /\ i + Len(ph) - 1 <= Len(text)
        /\ \A j \in 1..Len(ph) : HasSub(text[i + j - 1], ph[j])

\* text holds a speculative word that is not part of an allowed hedge phrase
SpeculativeOutsidePhrase(text) ==
    \E i \in 1..Len(text) :
        /\ \E w \in SpeculativeWords : HasSub(text[i], w[1])
        /\ ~OpensAllowedPhrase(text, i)

\* C32: validate_quality rejects every rationale that holds a speculative
\* word which is not itself part of an allowed hedge phrase, also when the
\* rationale holds an allowed hedge phrase elsewhere.
C32_UnhedgedSpeculationRejected ==
    (/\ Applied("validate_quality")
     /\ SpeculativeOutsidePhrase(LowerStr(RationaleOf(call.args))))
    => call.ret # "ok"

\* the items of field key that bag after has and bag before has not
NewIn(before, after, key) == Get(after, key, {}) \ Get(before, key, {})

\* the values of field attr of the items under key that carry one
Keyed(bag, key, attr) == {x[attr] : x \in Get(bag, key, {})} \ {""}

TierMap(bag) ==
    LET tiers == Get(bag, "tiers", <<>>)
    IN  {<<tiers[i].name, tiers[i].price, tiers[i].features>> : i \in 1..Len(tiers)}

\* a field that the comparator of the category compares differs between the
\* two bags
FieldDiffers(asset_type, before, after) ==
    CASE asset_type = "pricing" ->
           \/ TierMap(before) # TierMap(after)
           \/ Get(before, "has_free_tier", None) # Get(after, "has_free_tier", None)
      [] asset_type = "features" -> Get(before, "features", {}) # Get(after, "features", {})
      [] asset_type = "changelog" -> NewIn(before, after, "entries") # {}
      [] asset_type = "sitemap" -> Get(before, "urls", {}) # Get(after, "urls", {})
      [] asset_type = "blog" -> Keyed(after, "posts", "url") \ Keyed(before, "posts", "url") # {}
      [] asset_type = "compliance" ->
           \/ NewIn(before, after, "certifications") # {}
           \/ NewIn(before, after, "standards") # {}
      [] asset_type = "twitter" -> Keyed(after, "tweets", "id") \ Keyed(before, "tweets", "id") # {}
      [] asset_type = "news" ->
           Keyed(after, "articles", "url") \ Keyed(before, "articles", "url") # {}
      [] OTHER -> FALSE

\* the fields of a structured difference that are not collections
FlagFields == {"free_tier_changed", "free_tier_before", "free_tier_after"}

\* C33: for every asset category and every pair of attribute bags the
\* structured comparator returns nothing when no compared field differs, and
\* otherwise a structure with at least one field that is not empty; it never
\* returns a structure whose fields are all empty.
C33_NoEmptyStructure ==
    Applied("_compare_structured_data") =>
        /\ Truthy(call.ret)
            <=> FieldDiffers(call.args.asset_type, call.args.metadata_before,
                             call.args.metadata_after)
        /\ Truthy(call.ret) =>
              \/ \E k \in DOMAIN call.ret \ FlagFields : call.ret[k] # {}
              \/ \E k \in DOMAIN call.ret \cap {"free_tier_changed"} : call.ret[k]

\* a compliance page that lost a certification and gained none: nothing
C33_Witness ==
    /\ Applied("_compare_structured_data")
    /\ call.args.asset_type = "compliance"
    /\ call.args.metadata_before = [certifications |-> {"SOC 2"}, standards |-> {}]
    /\ call.args.metadata_after = [certifications |-> {}, standards |-> {}]
    /\ ~Truthy(call.ret)

\* the closed set of change categories
ChangeCategories ==
    {"pricing", "feature", "compliance", "changelog", "sitemap", "blog", "content", "other"}

\* C34: the change category stored on a Change is one of pricing, feature,
\* compliance, changelog, sitemap, blog, content, other, right after the
\* creation of the Change and after its classification.
C34_CategoryInClosedSet ==
    \A c \in ChangeIds : changes[c].change_type \in ChangeCategories

\* with the threads at th, a transmission of change c is still ahead: a
\* thread has c in hand or in its list of pending alerts, or the alert
\* thread has not yet run process_pending_alerts
AttemptAhead(th, c) ==
    \/ th.alert.pc = "start"
    \/ \E t \in DOMAIN th :
          /\ th[t].pc = "transmit"
          /\ th[t].kind = "immediate"
          /\ (th[t].c = c \/ (t = "alert" /\ c \in th[t].batch))

\* thread t had change c in send_immediate_alert, the sink did not accept
\* the message, and the thread went on
FailedImmediate(t, c) ==
    /\ threads[t].pc = "transmit"
    /\ threads[t].kind = "immediate"
    /\ threads[t].c = c
    /\ outbox'[c] = outbox[c]
    /\ threads'[t].pc \in {"classify", "idle", "loop", "transmit"}
    /\ threads'[t] # threads[t]

\* C35: a high-priority Change that passed the gate and whose immediate
\* transmission failed stays unsent and is attempted again by the running
\* system.
C35_FailedImmediateIsRetried ==
    [][\A t \in {"crawl", "alert"} : \A c \in ChangeIds :
          FailedImmediate(t, c)
          => LET th == threads'
                 chgs == changes'
             IN  /\ ~chgs[c].alert_sent
                 /\ AttemptAhead(th, c)]_vars


Referenced(c) == \E i \in 1..Len(alerts) : alerts[i].change_id = c

SentConsistent(c) ==
    /\ changes[c].alert_sent <=> Referenced(c)
    /\ changes[c].alert_sent
         => changes[c].priority # None /\ changes[c].alert_sent_at >= 0

\* C36: in every committed store state reached through the alert manager, a
\* Change has its sent flag set exactly when at least one Alert row references
\* it, a set flag comes with a priority and a sent timestamp, and a set flag
\* is never reset.
C36_SentFlagMatchesAlerts ==
    /\ [](\A c \in ChangeIds : SentConsistent(c))
    /\ [][\A c \in ChangeIds : changes[c].alert_sent => changes'[c].alert_sent]_vars

C36_Witness ==
    \E c \in ChangeIds :
       /\ changes[c].alert_sent
       /\ \E i \in 1..Len(alerts) :
            alerts[i].change_id = c /\ alerts[i].delivery_type = "daily_digest"
       /\ \E d \in ChangeIds : ~changes[d].alert_sent /\ changes[d].priority # None


\* start_scheduler: schedule.every().day.at("09:00") runs the next daily
\* sweep a day after this one
NextDailySweep(day) == day + DAILY_WINDOW

FailedDigest(snk, c) ==
    /\ snk # Quiet
    /\ snk.channel = "daily_digest"
    /\ c \in snk.attempted
    /\ snk.accepted = {}

\* C37: a medium-priority Change whose digest transmission failed is
\* included again in a later sweep: it is in the payload of the next daily
\* sweep.
C37_FailedDigestIsIncludedAgain ==
    [][\A c \in ChangeIds :
         LET snk == sink'
             chgs == changes'
         IN  FailedDigest(snk, c)
             => c \in get_pending_alerts(chgs, "medium", TRUE,
                                         NextDailySweep(now) - DAILY_WINDOW)]_vars


\* i, j, k are three crawls of asset a in a row: i and k successful, j failed
FailedBetween(a, i, j, k) ==
    /\ {i, j, k} \subseteq SnapshotsOf(snapshots, a)
    /\ i < j /\ j < k
    /\ \A m \in SnapshotsOf(snapshots, a) : m <= i \/ m = j \/ m >= k
    /\ snapshots[i].content_text # NoText
    /\ snapshots[j].content_hash = "" /\ snapshots[j].content_text = NoText
    /\ snapshots[k].content_text # NoText

\* the difference between the two successful crawls is one that detection,
\* run on the two alone, records as a Change whatever the semantic service
\* answers
DiffersForSure(a, i, k) ==
    \A sem \in SemanticOutcomes :
        Truthy(detect_changes_for_asset(<<snapshots[i], snapshots[k]>>, <<>>, a,
                                        AssetType(a), sem, now).row)

\* C38: when an asset's content differs between two successful crawls and a
\* failed crawl lies between them, the difference is still examined: once
\* detection has run on the later crawl, a significant difference has led to a
\* Change of the asset.
C38_DifferenceAcrossFailedCrawl ==
    \A a \in AssetIds : \A i, j, k \in 1..Len(snapshots) :
        (FailedBetween(a, i, j, k) /\ DiffersForSure(a, i, k))
        => \E c \in ChangeIds :
              changes[c].asset_id = a /\ changes[c].snapshot_after_id >= k


\* C39: when classification takes the rule-based fallback, the priority the
\* manager persists on the Change is the priority the rule-based fallback
\* computed.
C39_PersistedIsRulePriority ==
    (Applied("assign_priority") /\ call.args.llm.kind = "error")
        => call.ret.priority = call.ret.classification.priority


\* C40: a pair of snapshots whose structured diff is present and non-empty
\* results in a Change when no Change exists yet for the later snapshot,
\* whatever the semantic service answers.
C40_StructuredDiffAlwaysRecorded ==
    Applied("detect_changes_for_asset") =>
        LET a == call.args.asset_id
            snaps == call.args.snaps
            change_data == compare_snapshots(snaps[1], snaps[2], AssetType(a))
        IN  (/\ snaps[1].asset_id = a
             /\ snaps[2].asset_id = a
             /\ Truthy(change_data)
             /\ Truthy(change_data.structured_diff))
            => Truthy(call.ret.row)

====
